---- MODULE Spec2Model ----
(***************************************************************************)
(* A model of the FeatureScript stdlib indexer (tools/indexer.ts).         *)
(*                                                                         *)
(* Strings are sequences of one-character strings, so that the path        *)
(* arithmetic of the indexer (split, join, slice, replace) is computed     *)
(* character by character as the code does.  A file of the indexed tree    *)
(* is seen through what the regular expressions of the indexer extract     *)
(* from its comment-stripped text: the successive matches of the import    *)
(* pattern, the successive matches of the export pattern and the set of    *)
(* identifier tokens.                                                      *)
(***************************************************************************)
EXTENDS Integers, Sequences, FiniteSets, TLC

(***************************************************************************)
(* Bounds of the model.                                                    *)
(***************************************************************************)
\* at most this many source files in the indexed tree
MaxFiles == 3
\* at most this many import declarations in the whole tree
MaxDecls == 2
\* at most this many records handed to buildSuffixIndex on its own
MaxRecords == 3
\* at most this many import declarations in one file of a tree of long files
MaxFileDecls == 6
\* at most this many buildGraph calls in one process
MaxCalls == 2
\* at most this many characters in a text given to stripComments
MaxTextLen == 5
\* at most this many fragments in a text made of fragments
MaxFragments == 4
\* at most this many arguments on the command line
MaxArgs == 2
\* at most this many occurrences of one spelling in an alias map given to chooseModulePath
MaxAliasCount == 2
\* expandNeighbors is called with a depth of at most
MaxDepth == 2

(***************************************************************************)
(* Strings.                                                                *)
(***************************************************************************)
\* the value of a missing result (never equal to a string of characters)
undefined == <<"<undefined>">>

\* the separator of the edge keys, "\u0000"
NUL == "<NUL>"

Range(s) == {s[i] : i \in DOMAIN s}

\* value.slice(from) of a sequence, with a 0-based index as in the code
SliceFrom(s, from) == SubSeq(s, from + 1, Len(s))

RECURSIVE SplitAt(_, _)
\* value.split("/"): the pieces between the slashes, the empty ones included
SplitAt(s, cur) ==
    IF s = <<>> THEN <<cur>>
    ELSE IF Head(s) = "/" THEN <<cur>> \o SplitAt(Tail(s), <<>>)
    ELSE SplitAt(Tail(s), Append(cur, Head(s)))

\* value.split("/").filter(Boolean)
Segments(s) == SelectSeq(SplitAt(s, <<>>), LAMBDA piece : piece # <<>>)

RECURSIVE JoinSlash(_)
\* segments.join("/")
JoinSlash(segs) ==
    IF segs = <<>> THEN <<>>
    ELSE IF Len(segs) = 1 THEN segs[1]
    ELSE segs[1] \o <<"/">> \o JoinSlash(Tail(segs))

\* value.replace(/\\/g, "/")
BackslashesToSlashes(s) == [i \in DOMAIN s |-> IF s[i] = "\\" THEN "/" ELSE s[i]]

RECURSIVE DropSlashes(_)
DropSlashes(s) ==
    IF s # <<>> /\ Head(s) = "/" THEN DropSlashes(Tail(s)) ELSE s

\* value.replace(/^\.\/+/, ""): one leading "./", with every slash that follows it
StripLeadingDotSlash(s) ==
    IF Len(s) >= 2 /\ s[1] = "." /\ s[2] = "/" THEN DropSlashes(Tail(s)) ELSE s

RECURSIVE CollapseSlashes(_)
\* value.replace(/\/+/g, "/")
CollapseSlashes(s) ==
    IF s = <<>> THEN <<>>
    ELSE IF Head(s) = "/" THEN <<"/">> \o CollapseSlashes(DropSlashes(s))
    ELSE <<Head(s)>> \o CollapseSlashes(Tail(s))

normalizePath(value) ==
    CollapseSlashes(StripLeadingDotSlash(BackslashesToSlashes(value)))

\* relative is path.relative(root, filePath), the path of a collected file under the root
toPosixRelative(relative) == normalizePath(relative)

Whitespace == {" ", "\n", "\t", "\r"}

RECURSIVE TrimStart(_)
TrimStart(s) ==
    IF s # <<>> /\ Head(s) \in Whitespace THEN TrimStart(Tail(s)) ELSE s

RECURSIVE TrimEnd(_)
TrimEnd(s) ==
    IF s # <<>> /\ s[Len(s)] \in Whitespace THEN TrimEnd(SubSeq(s, 1, Len(s) - 1)) ELSE s

\* value.trim()
Trim(s) == TrimEnd(TrimStart(s))

\* the collation rank of the characters of the model: punctuation, digits, letters
CollationOrder ==
    <<".", "/", "\\", "0", "1", "2", "3", "4", "5", "6", "7", "8", "9",
      "a", "b", "c", "d", "e", "m", "x">>

CharRank(ch) == CHOOSE i \in DOMAIN CollationOrder : CollationOrder[i] = ch

RECURSIVE localeCompare(_, _)
\* a.localeCompare(b): negative, zero or positive
localeCompare(a, b) ==
    IF a = <<>> /\ b = <<>> THEN 0
    ELSE IF a = <<>> THEN -1
    ELSE IF b = <<>> THEN 1
    ELSE IF Head(a) = Head(b) THEN localeCompare(Tail(a), Tail(b))
    ELSE IF CharRank(Head(a)) < CharRank(Head(b)) THEN -1 ELSE 1

\* where element i of s goes under a stable sort: after the elements that compare
\* lower, and after the earlier elements that compare equal; cmp[<<k, i>>] is what
\* the comparator returns for (s[k], s[i])
SortedPosition(s, i, cmp) ==
    1 + Cardinality({k \in DOMAIN s :
                        \/ cmp[<<k, i>>] < 0
                        \/ cmp[<<k, i>>] = 0 /\ k < i})

\* array.sort(comparator), which is stable
SortBy(s, cmp) ==
    [pos \in DOMAIN s |-> s[CHOOSE i \in DOMAIN s : SortedPosition(s, i, cmp) = pos]]

\* the comparator (a, b) => a.localeCompare(b) over the elements of s
ByLocaleCompare(s) ==
    [p \in (DOMAIN s) \X (DOMAIN s) |-> localeCompare(s[p[1]], s[p[2]])]

RECURSIVE SetToSeq(_)
\* the elements of a set of strings, in some order
SetToSeq(S) ==
    IF S = {} THEN <<>>
    ELSE LET x == CHOOSE y \in S : TRUE IN <<x>> \o SetToSeq(S \ {x})

(***************************************************************************)
(* Maps (Map<K, V>) are functions whose domain is the set of keys.         *)
(***************************************************************************)
EmptyMap == [k \in {} |-> k]

MapHas(m, k) == k \in DOMAIN m

MapSet(m, k, v) == [x \in (DOMAIN m) \cup {k} |-> IF x = k THEN v ELSE m[x]]

\* map.get(k) ?? dflt
MapGetOr(m, k, dflt) == IF k \in DOMAIN m THEN m[k] ELSE dflt

(***************************************************************************)
(* Path Resolver.                                                          *)
(***************************************************************************)
RECURSIVE IndexSuffixesKeepingLast(_, _, _, _)
\* an index that keeps one record per suffix, the last one
IndexSuffixesKeepingLast(index, record, segments, i) ==
    IF i >= Len(segments) THEN index
    ELSE IndexSuffixesKeepingLast(
             MapSet(index, JoinSlash(SliceFrom(segments, i)), <<record.id>>),
             record, segments, i + 1)

RECURSIVE IndexSuffixes(_, _, _, _)
\* the inner loop of buildSuffixIndex: one key per starting offset i
IndexSuffixes(index, record, segments, i) ==
    IF i >= Len(segments) THEN index
    ELSE LET suffix == JoinSlash(SliceFrom(segments, i))
             existing == MapGetOr(index, suffix, <<>>)
         IN  IndexSuffixes(MapSet(index, suffix, Append(existing, record.id)),
                           record, segments, i + 1)

RECURSIVE IndexRecords(_, _)
IndexRecords(index, records) ==
    IF records = <<>> THEN index
    ELSE IndexRecords(
             IndexSuffixes(index, Head(records), Segments(Head(records).filePath), 0),
             Tail(records))

buildSuffixIndex(records) == IndexRecords(EmptyMap, records)

RECURSIVE ResolveShorterFirstMatch(_, _, _)
\* a loop that takes the first file of the first shorter suffix that has matches
ResolveShorterFirstMatch(segments, i, suffixIndex) ==
    IF i >= Len(segments) THEN undefined
    ELSE LET suffix == JoinSlash(SliceFrom(segments, i))
         IN  IF MapHas(suffixIndex, suffix)
             THEN suffixIndex[suffix][1]
             ELSE ResolveShorterFirstMatch(segments, i + 1, suffixIndex)

RECURSIVE ResolveShorter(_, _, _)
\* the loop of resolveModuleTarget over i = 1 .. segments.length - 1
ResolveShorter(segments, i, suffixIndex) ==
    IF i >= Len(segments) THEN undefined
    ELSE LET suffix == JoinSlash(SliceFrom(segments, i))
         IN  IF MapHas(suffixIndex, suffix) /\ Len(suffixIndex[suffix]) = 1
             THEN suffixIndex[suffix][1]
             ELSE ResolveShorter(segments, i + 1, suffixIndex)

\* a resolver that takes the first registered file of an ambiguous suffix
resolveModuleTargetFirstRegistered(modulePath, sIndex) ==
    LET normalized == normalizePath(modulePath)
    IN  IF MapHas(sIndex, normalized) /\ Len(sIndex[normalized]) >= 1
        THEN sIndex[normalized][1]
        ELSE ResolveShorter(Segments(normalized), 1, sIndex)

resolveModuleTarget(modulePath, suffixIndex) ==
    LET normalized == normalizePath(modulePath)
    IN  IF MapHas(suffixIndex, normalized) /\ Len(suffixIndex[normalized]) = 1
        THEN suffixIndex[normalized][1]
        ELSE ResolveShorter(Segments(normalized), 1, suffixIndex)

(***************************************************************************)
(* Declaration Extractor.                                                  *)
(***************************************************************************)
RECURSIVE CollectImportsKeepingRepeats(_, _)
\* a match loop that pushes every non-empty target
CollectImportsKeepingRepeats(matches, acc) ==
    IF matches = <<>> THEN acc
    ELSE LET match == Head(matches)
             target == normalizePath(Trim(match.path))
             next == IF target = <<>> THEN acc
                     ELSE IF match.qualifier
                     THEN [acc EXCEPT !.reexports = Append(@, target)]
                     ELSE [acc EXCEPT !.imports = Append(@, target)]
         IN  CollectImportsKeepingRepeats(Tail(matches), next)

RECURSIVE CollectImports(_, _)
\* the match loop of parseImports; a match is what the pattern captures of one
\* declaration: qualifier (match[1], the export qualifier when present) and
\* path (match[2]); the version string is matched and not captured
CollectImports(matches, acc) ==
    IF matches = <<>> THEN acc
    ELSE LET match == Head(matches)
             target == normalizePath(Trim(match.path))
             next == IF target = <<>> THEN acc
                     ELSE IF match.qualifier
                     THEN IF target \in Range(acc.reexports) THEN acc
                          ELSE [acc EXCEPT !.reexports = Append(@, target)]
                     ELSE IF target \in Range(acc.imports) THEN acc
                          ELSE [acc EXCEPT !.imports = Append(@, target)]
         IN  CollectImports(Tail(matches), next)

\* pattern.exec over the text: the declarations the pattern matches, in order
ExecImportPattern(declarations) ==
    [i \in DOMAIN declarations |->
        [qualifier |-> declarations[i].qualifier, path |-> declarations[i].path]]

parseImports(source) ==
    CollectImports(ExecImportPattern(source.declarations),
                   [imports |-> <<>>, reexports |-> <<>>])

RECURSIVE CollectSymbols(_, _)
CollectSymbols(matches, out) ==
    IF matches = <<>> THEN out
    ELSE CollectSymbols(Tail(matches),
                        IF Head(matches) \in Range(out) THEN out
                        ELSE Append(out, Head(matches)))

\* the names after "export <kind>", without repeats, in order of first occurrence
parseExportedSymbols(source) == CollectSymbols(source.exportMatches, <<>>)

extractIdentifierTokens(source) == source.identifiers

(***************************************************************************)
(* Alias Chooser.                                                          *)
(***************************************************************************)
\* a comparator that does not look at the lengths of the spellings
CompareAliasesIgnoringLength(a, b) ==
    IF b[2] # a[2] THEN b[2] - a[2]
    ELSE localeCompare(a[1], b[1])

\* the comparator of chooseModulePath over [spelling, count] entries
CompareAliases(a, b) ==
    IF b[2] # a[2] THEN b[2] - a[2]
    ELSE IF Len(b[1]) # Len(a[1]) THEN Len(b[1]) - Len(a[1])
    ELSE localeCompare(a[1], b[1])

ByAliases(entries) ==
    [p \in (DOMAIN entries) \X (DOMAIN entries) |->
        CompareAliases(entries[p[1]], entries[p[2]])]

\* aliases is a map spelling -> count; the empty map also stands for undefined
chooseModulePath(aliases, fallback) ==
    IF DOMAIN aliases = {} THEN fallback
    ELSE LET entries == SetToSeq({<<spelling, aliases[spelling]>> : spelling \in DOMAIN aliases})
         IN  SortBy(entries, ByAliases(entries))[1][1]

(***************************************************************************)
(* Graph Builder: the state of one run of buildGraph.                      *)
(***************************************************************************)
VARIABLES
    fsFiles,                  \* the collected files, sorted (paths relative to the root)
    sourceTexts,              \* what readFile returned for the files read so far
    parsedFiles,              \* the ParsedFile records of the files read so far
    declsRead,                \* how many import declarations the files read so far hold
    pc,                       \* where buildGraph is
    suffixIndex,
    edges,
    edgeKeys,
    virtualNodes,             \* the values of the map, in insertion order (key: data.id)
    aliasCounts,
    targetsByFile,
    directConsumersByTarget,
    edgeNumber,
    nodes,
    output,                   \* the returned elements, or undefined
    records,                  \* buildSuffixIndex called on its own: its argument,
    index,                    \*   its result,
    resolution,               \*   the last resolveModuleTarget call on it,
    resolverPc,               \*   and where the caller is
    previousOutputs,          \* what the earlier buildGraph calls of the process returned
    argv,                     \* process.argv.slice(2)
    walk,                     \* collectFsFiles: the tree, the directories to list, the files found
    error,                    \* the rejection that reached main().catch, or "none"
    exitCode,                 \* process.exitCode
    outFile,                  \* the file at options.out: what was written to it, if anything
    strip,                    \* the locals of a stripComments call on its own
    parsedImports,            \*   and what parseImports returned for its result
    call                      \* a call of a function on its own: arguments and result

vars == <<fsFiles, sourceTexts, parsedFiles, declsRead, pc, suffixIndex, edges, edgeKeys, virtualNodes,
          aliasCounts, targetsByFile, directConsumersByTarget, edgeNumber, nodes, output,
          records, index, resolution, resolverPc,
          previousOutputs, argv, walk, error, exitCode, outFile, strip, parsedImports, call>>

graphVars == <<fsFiles, sourceTexts, parsedFiles, declsRead, pc, suffixIndex, edges, edgeKeys,
               virtualNodes, aliasCounts, targetsByFile, directConsumersByTarget,
               edgeNumber, nodes, output>>

resolverVars == <<records, index, resolution, resolverPc>>

mainVars == <<previousOutputs, argv, walk, error, exitCode, outFile>>

stripVars == <<strip, parsedImports>>

Digits == <<"0", "1", "2", "3", "4", "5", "6", "7", "8", "9">>

RECURSIVE Decimal(_)
\* `${n}` of a non-negative integer
Decimal(n) ==
    IF n < Len(Digits) THEN <<Digits[n + 1]>>
    ELSE Decimal(n \div Len(Digits)) \o <<Digits[(n % Len(Digits)) + 1]>>

KindChars(kind) ==
    IF kind = "import" THEN <<"i", "m", "p", "o", "r", "t">>
    ELSE <<"r", "e", "e", "x", "p", "o", "r", "t">>

\* a key that leaves the kind out
EdgeKeyWithoutKind(kind, source, target) == source \o <<NUL>> \o target

\* `${kind}\u0000${file.id}\u0000${resolvedTarget}`
EdgeKey(kind, source, target) ==
    KindChars(kind) \o <<NUL>> \o source \o <<NUL>> \o target

parsedFileIds == {parsedFiles[i].id : i \in DOMAIN parsedFiles}

\* parsedById.get(id), for an id of parsedFileIds: the last record pushed under the id
ParsedById(id) ==
    parsedFiles[CHOOSE i \in DOMAIN parsedFiles :
                    /\ parsedFiles[i].id = id
                    /\ \A j \in DOMAIN parsedFiles : parsedFiles[j].id = id => j <= i]

\* the placeholder node of a declared path that names no indexed file (isVirtual: true)
VirtualNode(resolvedTarget, targetModulePath) ==
    [id |-> resolvedTarget,
     filePath |-> "(unresolved module)",
     modulePath |-> targetModulePath,
     loc |-> 0,
     functionCount |-> 0,
     imports |-> <<>>,
     reexports |-> <<>>,
     importTargets |-> <<>>,
     reexportTargets |-> <<>>,
     importCount |-> 0,
     reexportCount |-> 0,
     exports |-> <<>>,
     exportCount |-> 0,
     symbolUsers |-> EmptyMap,
     isVirtual |-> TRUE]

\* virtualNodes.set(node.data.id, node): a new key goes last, a known key keeps its place
SetVirtualNode(vnodes, node) ==
    IF \E i \in DOMAIN vnodes : vnodes[i].id = node.id
    THEN [i \in DOMAIN vnodes |-> IF vnodes[i].id = node.id THEN node ELSE vnodes[i]]
    ELSE Append(vnodes, node)

\* resolveModuleTarget(targetModulePath, suffixIndex) ?? targetModulePath
ResolvedTarget(targetModulePath, sIndex) ==
    LET found == resolveModuleTarget(targetModulePath, sIndex)
    IN  IF found = undefined THEN targetModulePath ELSE found

\* an edge per declaration, whether or not its key is known
AddEdgeWithoutKeyCheck(g, kind, fileId, resolvedTarget) ==
    [g EXCEPT !.edgeKeys = @ \cup {EdgeKey(kind, fileId, resolvedTarget)},
              !.edgeNumber = @ + 1,
              !.edges = Append(@, [id |-> <<"e">> \o Decimal(g.edgeNumber + 1),
                                   source |-> fileId,
                                   target |-> resolvedTarget,
                                   kind |-> kind])]

\* an edge counter that also counts the declarations whose key is known
AddEdgeCountingEveryDeclaration(g, kind, fileId, resolvedTarget) ==
    LET edgeKey == EdgeKey(kind, fileId, resolvedTarget)
    IN  IF edgeKey \in g.edgeKeys THEN [g EXCEPT !.edgeNumber = @ + 1]
        ELSE [g EXCEPT !.edgeKeys = @ \cup {edgeKey},
                       !.edgeNumber = @ + 1,
                       !.edges = Append(@, [id |-> <<"e">> \o Decimal(g.edgeNumber + 1),
                                            source |-> fileId,
                                            target |-> resolvedTarget,
                                            kind |-> kind])]

\* the edge of a declaration, unless its key is known
AddEdge(g, kind, fileId, resolvedTarget) ==
    LET edgeKey == EdgeKey(kind, fileId, resolvedTarget)
    IN  IF edgeKey \in g.edgeKeys THEN g
        ELSE [g EXCEPT !.edgeKeys = @ \cup {edgeKey},
                       !.edgeNumber = @ + 1,
                       !.edges = Append(@, [id |-> <<"e">> \o Decimal(g.edgeNumber + 1),
                                            source |-> fileId,
                                            target |-> resolvedTarget,
                                            kind |-> kind])]

\* the declaring file becomes a direct consumer of an indexed target
AddConsumer(g, fileId, resolvedTarget, fileIds) ==
    IF resolvedTarget \in fileIds
    THEN [g EXCEPT !.directConsumersByTarget =
                       MapSet(@, resolvedTarget, MapGetOr(@, resolvedTarget, {}) \cup {fileId})]
    ELSE g

\* the declared spelling is counted as an alias of the target
AddAlias(g, fileId, resolvedTarget, targetModulePath) ==
    IF resolvedTarget # targetModulePath /\ resolvedTarget # fileId
    THEN LET aliasMap == MapGetOr(g.aliasCounts, resolvedTarget, EmptyMap)
         IN  [g EXCEPT !.aliasCounts =
                           MapSet(@, resolvedTarget,
                                  MapSet(aliasMap, targetModulePath,
                                         MapGetOr(aliasMap, targetModulePath, 0) + 1))]
    ELSE g

\* a loop body that gives an unknown target no placeholder node
AddNoVirtualNode(g, resolvedTarget, targetModulePath, fileIds) == g

\* a target that is no indexed file gets its placeholder node
AddVirtualNode(g, resolvedTarget, targetModulePath, fileIds) ==
    IF resolvedTarget \notin fileIds
    THEN [g EXCEPT !.virtualNodes =
                       SetVirtualNode(@, VirtualNode(resolvedTarget, targetModulePath))]
    ELSE g

\* the body of the loop over file.imports (kind "import") or file.reexports ("reexport")
LinkDeclaration(g, kind, fileId, targetModulePath, sIndex, fileIds) ==
    LET resolvedTarget == ResolvedTarget(targetModulePath, sIndex)
    IN  AddVirtualNode(
            AddAlias(
                AddConsumer(
                    AddEdge(g, kind, fileId, resolvedTarget),
                    fileId, resolvedTarget, fileIds),
                fileId, resolvedTarget, targetModulePath),
            resolvedTarget, targetModulePath, fileIds)

RECURSIVE LinkDeclarations(_, _, _, _, _, _)
LinkDeclarations(g, kind, fileId, paths, sIndex, fileIds) ==
    IF paths = <<>> THEN g
    ELSE LinkDeclarations(LinkDeclaration(g, kind, fileId, Head(paths), sIndex, fileIds),
                          kind, fileId, Tail(paths), sIndex, fileIds)

\* importTargets / reexportTargets of a file: parallel to the declared paths
TargetsOf(paths, sIndex) == [i \in DOMAIN paths |-> ResolvedTarget(paths[i], sIndex)]

\* one iteration of the first loop over parsedFiles
LinkFile(g, file, sIndex, fileIds) ==
    LET afterImports == LinkDeclarations(g, "import", file.id, file.imports, sIndex, fileIds)
        afterReexports == LinkDeclarations(afterImports, "reexport", file.id, file.reexports,
                                           sIndex, fileIds)
    IN  [afterReexports EXCEPT !.targetsByFile =
            MapSet(@, file.id, [importTargets |-> TargetsOf(file.imports, sIndex),
                                reexportTargets |-> TargetsOf(file.reexports, sIndex)])]

RECURSIVE LinkFiles(_, _, _, _)
LinkFiles(g, files, sIndex, fileIds) ==
    IF files = <<>> THEN g
    ELSE LinkFiles(LinkFile(g, Head(files), sIndex, fileIds), Tail(files), sIndex, fileIds)

\* the direct consumers of the file under every exported symbol, token or not
SymbolUsersIgnoringTokens(file, consumersByTarget) ==
    LET directConsumers == MapGetOr(consumersByTarget, file.id, {})
        listed == SetToSeq(directConsumers)
        users == SortBy(listed, ByLocaleCompare(listed))
    IN  [symbol \in {x \in Range(file.exportedSymbols) : Len(users) > 0} |-> users]

\* a map that keeps the exported symbols that have no user
SymbolUsersKeepingEmptyLists(file, consumersByTarget) ==
    LET directConsumers == MapGetOr(consumersByTarget, file.id, {})
        users(symbol) ==
            LET listed == SetToSeq({consumerId \in directConsumers :
                                       symbol \in ParsedById(consumerId).tokens})
            IN  SortBy(listed, ByLocaleCompare(listed))
    IN  [symbol \in Range(file.exportedSymbols) |-> users(symbol)]

\* symbolUsers of a file: per exported symbol, the direct consumers that hold the token
SymbolUsers(file, consumersByTarget) ==
    LET directConsumers == MapGetOr(consumersByTarget, file.id, {})
        users(symbol) ==
            LET listed == SetToSeq({consumerId \in directConsumers :
                                       symbol \in ParsedById(consumerId).tokens})
            IN  SortBy(listed, ByLocaleCompare(listed))
    IN  [symbol \in {x \in Range(file.exportedSymbols) : Len(users(x)) > 0} |-> users(symbol)]

\* the node of an indexed file (isVirtual is absent from it, which FALSE stands for)
FileNode(file, targets, aliases, consumersByTarget) ==
    [id |-> file.id,
     filePath |-> file.filePath,
     modulePath |-> chooseModulePath(MapGetOr(aliases, file.id, EmptyMap), file.filePath),
     loc |-> file.loc,
     functionCount |-> file.functionCount,
     imports |-> file.imports,
     reexports |-> file.reexports,
     importTargets |-> MapGetOr(targets, file.id,
                                [importTargets |-> <<>>, reexportTargets |-> <<>>]).importTargets,
     reexportTargets |-> MapGetOr(targets, file.id,
                                  [importTargets |-> <<>>, reexportTargets |-> <<>>]).reexportTargets,
     importCount |-> Len(file.imports),
     reexportCount |-> Len(file.reexports),
     exports |-> file.exportedSymbols,
     exportCount |-> Len(file.exportedSymbols),
     symbolUsers |-> SymbolUsers(file, consumersByTarget),
     isVirtual |-> FALSE]

\* the second loop over parsedFiles: one node per indexed file, in file order
FileNodes(files, targets, aliases, consumersByTarget) ==
    [i \in DOMAIN files |-> FileNode(files[i], targets, aliases, consumersByTarget)]

RECURSIVE MergeVirtualNodes(_, _)
\* the virtual nodes whose id no node has yet are pushed, in the order of the map
MergeVirtualNodes(nodeList, vnodes) ==
    IF vnodes = <<>> THEN nodeList
    ELSE MergeVirtualNodes(
             IF \E i \in DOMAIN nodeList : nodeList[i].id = Head(vnodes).id
             THEN nodeList ELSE Append(nodeList, Head(vnodes)),
             Tail(vnodes))

CompareById(a, b) == localeCompare(a.id, b.id)

\* the comparator (a, b) => a.data.id.localeCompare(b.data.id) over the elements of s
ById(s) ==
    [p \in (DOMAIN s) \X (DOMAIN s) |-> CompareById(s[p[1]], s[p[2]])]

\* readFile, stripComments and the extractors, then the ParsedFile record
ParseFile(relative, source) ==
    [id |-> toPosixRelative(relative),
     filePath |-> toPosixRelative(relative),
     loc |-> source.lines,
     functionCount |-> source.functions,
     imports |-> parseImports(source).imports,
     reexports |-> parseImports(source).reexports,
     exportedSymbols |-> parseExportedSymbols(source),
     tokens |-> extractIdentifierTokens(source)]

(***************************************************************************)
(* The indexed trees of the model.                                         *)
(***************************************************************************)
\* the files a tree can hold, by their paths under the root
TreePaths ==
    { <<"c">>, <<"a", "/", "c">>, <<"b", "/", "c">>, <<"b", "/", "a", "/", "c">> }

\* the files of a tree on a system where a backslash is a character of a file name:
\* the file a\c of the root beside the file c of the directory a
PosixTreePaths == { <<"c">>, <<"a", "/", "c">>, <<"a", "\\", "c">> }

\* the import declarations a file can hold
Declarations ==
    { [qualifier |-> FALSE, path |-> <<"c">>, version |-> <<"1">>],
      [qualifier |-> FALSE, path |-> <<".", "/", "c">>, version |-> <<"2">>],
      [qualifier |-> TRUE, path |-> <<"c">>, version |-> <<"1">>],
      [qualifier |-> FALSE, path |-> <<"x", "/", "c">>, version |-> <<"1">>],
      [qualifier |-> FALSE, path |-> <<"a", "/", "c">>, version |-> <<"1">>] }

\* what a file holds besides: it exports function Foo and names it, or neither
SymbolTexts ==
    { [exportMatches |-> <<"Foo">>, identifiers |-> {"Foo", "export", "function"}],
      [exportMatches |-> <<>>, identifiers |-> {}] }

DeclarationSeqs(budget) == UNION {[1..k -> Declarations] : k \in 0..budget}

\* the texts of a file that hold at most budget import declarations
SourceTexts(budget) ==
    { [declarations |-> d,
       exportMatches |-> t.exportMatches,
       identifiers |-> t.identifiers \cup (IF d = <<>> THEN {} ELSE {"import", "path", "version"}),
       lines |-> Len(d) + Len(t.exportMatches),
       functions |-> Len(t.exportMatches)] : d \in DeclarationSeqs(budget), t \in SymbolTexts }

\* files.sort((a, b) => a.localeCompare(b)) over the files of the tree
SortedFiles(paths) ==
    LET files == SetToSeq(paths) IN SortBy(files, ByLocaleCompare(files))

EmptyGraphState ==
    [edges |-> <<>>, edgeKeys |-> {}, edgeNumber |-> 0, virtualNodes |-> <<>>,
     aliasCounts |-> EmptyMap, directConsumersByTarget |-> EmptyMap,
     targetsByFile |-> EmptyMap]

NoResolution == [modulePath |-> <<>>, target |-> undefined]

ResolverIdle ==
    /\ records = <<>>
    /\ index = EmptyMap
    /\ resolution = NoResolution
    /\ resolverPc = "idle"

\* collectFsFiles before its first readdir, on a tree given by the paths of its files
NoWalk(tree) == [tree |-> tree, todo |-> <<>>, files |-> {}]

\* no file was written, no rejection was caught, no earlier call returned
MainIdle ==
    /\ previousOutputs = <<>>
    /\ argv = <<>>
    /\ walk = NoWalk({})
    /\ error = "none"
    /\ exitCode = 0
    /\ outFile = [written |-> FALSE]

NoImports == [imports |-> <<>>, reexports |-> <<>>]

StripIdle ==
    /\ strip = [pc |-> "idle"]
    /\ parsedImports = NoImports

\* no function is called on its own
CallIdle == call = [pc |-> "idle"]

\* buildGraph has collected the files of a tree and has read none
Collected(treePaths) ==
    /\ \E paths \in SUBSET treePaths :
          /\ Cardinality(paths) <= MaxFiles
          /\ fsFiles = SortedFiles(paths)
    /\ sourceTexts = <<>>
    /\ parsedFiles = <<>>
    /\ declsRead = 0
    /\ pc = "read"
    /\ suffixIndex = EmptyMap
    /\ edges = <<>>
    /\ edgeKeys = {}
    /\ virtualNodes = <<>>
    /\ aliasCounts = EmptyMap
    /\ targetsByFile = EmptyMap
    /\ directConsumersByTarget = EmptyMap
    /\ edgeNumber = 0
    /\ nodes = <<>>
    /\ output = undefined
    /\ ResolverIdle
    /\ MainIdle
    /\ StripIdle
    /\ CallIdle

Init == Collected(TreePaths)

\* buildGraph reads and parses the next collected file
ReadFile ==
    /\ pc = "read"
    /\ Len(parsedFiles) < Len(fsFiles)
    /\ \E source \in SourceTexts(MaxDecls - declsRead) :
          /\ sourceTexts' = Append(sourceTexts, source)
          /\ parsedFiles' = Append(parsedFiles, ParseFile(fsFiles[Len(parsedFiles) + 1], source))
          /\ declsRead' = declsRead + Len(source.declarations)
    /\ UNCHANGED <<fsFiles, pc, suffixIndex, edges, edgeKeys, virtualNodes, aliasCounts,
                   targetsByFile, directConsumersByTarget, edgeNumber, nodes, output>>
    /\ UNCHANGED <<resolverVars, mainVars, stripVars, call>>

\* an edge counter that outlives the call: the numbering goes on where it was
LinkParsedFilesKeepingEdgeNumber ==
    /\ pc = "read"
    /\ Len(parsedFiles) = Len(fsFiles)
    /\ LET sIndex == buildSuffixIndex(parsedFiles)
           g == LinkFiles([EmptyGraphState EXCEPT !.edgeNumber = edgeNumber],
                          parsedFiles, sIndex, parsedFileIds)
       IN  /\ suffixIndex' = sIndex
           /\ edges' = g.edges
           /\ edgeKeys' = g.edgeKeys
           /\ edgeNumber' = g.edgeNumber
           /\ virtualNodes' = g.virtualNodes
           /\ aliasCounts' = g.aliasCounts
           /\ directConsumersByTarget' = g.directConsumersByTarget
           /\ targetsByFile' = g.targetsByFile
    /\ pc' = "assemble"
    /\ UNCHANGED <<fsFiles, sourceTexts, parsedFiles, declsRead, nodes, output>>
    /\ UNCHANGED <<resolverVars, mainVars, stripVars, call>>

\* the suffix index and the first loop over parsedFiles: edges, consumers, aliases,
\* virtual nodes and targets
LinkParsedFiles ==
    /\ pc = "read"
    /\ Len(parsedFiles) = Len(fsFiles)
    /\ LET sIndex == buildSuffixIndex(parsedFiles)
           g == LinkFiles(EmptyGraphState, parsedFiles, sIndex, parsedFileIds)
       IN  /\ suffixIndex' = sIndex
           /\ edges' = g.edges
           /\ edgeKeys' = g.edgeKeys
           /\ edgeNumber' = g.edgeNumber
           /\ virtualNodes' = g.virtualNodes
           /\ aliasCounts' = g.aliasCounts
           /\ directConsumersByTarget' = g.directConsumersByTarget
           /\ targetsByFile' = g.targetsByFile
    /\ pc' = "assemble"
    /\ UNCHANGED <<fsFiles, sourceTexts, parsedFiles, declsRead, nodes, output>>
    /\ UNCHANGED <<resolverVars, mainVars, stripVars, call>>

\* the second loop over parsedFiles: one node per indexed file
AssembleNodes ==
    /\ pc = "assemble"
    /\ nodes' = FileNodes(parsedFiles, targetsByFile, aliasCounts, directConsumersByTarget)
    /\ pc' = "emit"
    /\ UNCHANGED <<fsFiles, sourceTexts, parsedFiles, declsRead, suffixIndex, edges, edgeKeys, virtualNodes,
                   aliasCounts, targetsByFile, directConsumersByTarget, edgeNumber, output>>
    /\ UNCHANGED <<resolverVars, mainVars, stripVars, call>>

\* the virtual nodes join the list, nodes and edges are sorted, the graph is returned
EmitGraph ==
    /\ pc = "emit"
    /\ LET merged == MergeVirtualNodes(nodes, virtualNodes)
       IN  nodes' = SortBy(merged, ById(merged))
    /\ edges' = SortBy(edges, ById(edges))
    /\ output' = [nodes |-> nodes', edges |-> edges']
    /\ pc' = "done"
    /\ UNCHANGED <<fsFiles, sourceTexts, parsedFiles, declsRead, suffixIndex, edgeKeys, virtualNodes,
                   aliasCounts, targetsByFile, directConsumersByTarget, edgeNumber>>
    /\ UNCHANGED <<resolverVars, mainVars, stripVars, call>>

Next == ReadFile \/ LinkParsedFiles \/ AssembleNodes \/ EmitGraph

Spec == Init /\ [][Next]_vars

\* the same run over a tree of a system whose file names can hold a backslash
InitPosix == Collected(PosixTreePaths)

SpecPosix == InitPosix /\ [][Next]_vars

(***************************************************************************)
(* buildGraph over trees of long files, called up to MaxCalls times in one *)
(* process on the unchanged tree.                                          *)
(***************************************************************************)
\* the files such a tree can hold
LongTreePaths == { <<"c">>, <<"m">> }

\* the paths the declarations of a long file declare, in turn
DeclaredPathCycle ==
    << <<"c">>, <<"x", "/", "c">>, <<"m">>, <<"d">>, <<"e">>, <<"b">> >>

\* declaration k of a long file: the paths in turn, three plain declarations, then
\* three export-qualified ones, and so on
LongFileDeclaration(k) ==
    [qualifier |-> ((k - 1) \div 3) % 2 = 1,
     path |-> DeclaredPathCycle[((k - 1) % Len(DeclaredPathCycle)) + 1],
     version |-> <<"1">>]

\* the texts of the long files: the first k declarations, and no exported symbol
LongSourceTexts ==
    { [declarations |-> [k \in 1..n |-> LongFileDeclaration(k)],
       exportMatches |-> <<>>,
       identifiers |-> IF n = 0 THEN {} ELSE {"import", "path", "version"},
       lines |-> n,
       functions |-> 0] : n \in 0..MaxFileDecls }

InitLong == Collected(LongTreePaths)

\* buildGraph reads and parses the next collected file, a long one
ReadLongFile ==
    /\ pc = "read"
    /\ Len(parsedFiles) < Len(fsFiles)
    /\ Len(sourceTexts) = Len(parsedFiles)
    /\ \E source \in LongSourceTexts :
          /\ sourceTexts' = Append(sourceTexts, source)
          /\ parsedFiles' = Append(parsedFiles, ParseFile(fsFiles[Len(parsedFiles) + 1], source))
          /\ declsRead' = declsRead + Len(source.declarations)
    /\ UNCHANGED <<fsFiles, pc, suffixIndex, edges, edgeKeys, virtualNodes, aliasCounts,
                   targetsByFile, directConsumersByTarget, edgeNumber, nodes, output>>
    /\ UNCHANGED <<resolverVars, mainVars, stripVars, call>>

\* a later call reads the next collected file, whose text is what it was
ReadFileAgain ==
    /\ pc = "read"
    /\ Len(parsedFiles) < Len(fsFiles)
    /\ Len(parsedFiles) < Len(sourceTexts)
    /\ LET source == sourceTexts[Len(parsedFiles) + 1]
       IN  /\ parsedFiles' = Append(parsedFiles, ParseFile(fsFiles[Len(parsedFiles) + 1], source))
           /\ declsRead' = declsRead + Len(source.declarations)
    /\ UNCHANGED <<fsFiles, sourceTexts, pc, suffixIndex, edges, edgeKeys, virtualNodes,
                   aliasCounts, targetsByFile, directConsumersByTarget, edgeNumber, nodes,
                   output>>
    /\ UNCHANGED <<resolverVars, mainVars, stripVars, call>>

\* buildGraph has returned and is called again on the unchanged tree: collectFsFiles
\* gives the same files, parsedFiles is a new empty array; the other locals are
\* created when the call reaches them
CallAgain ==
    /\ pc = "done"
    /\ Len(previousOutputs) + 1 < MaxCalls
    /\ previousOutputs' = Append(previousOutputs, output)
    /\ parsedFiles' = <<>>
    /\ declsRead' = 0
    /\ output' = undefined
    /\ pc' = "read"
    /\ UNCHANGED <<fsFiles, sourceTexts, suffixIndex, edges, edgeKeys, virtualNodes, aliasCounts,
                   targetsByFile, directConsumersByTarget, edgeNumber, nodes>>
    /\ UNCHANGED <<argv, walk, error, exitCode, outFile>>
    /\ UNCHANGED <<resolverVars, stripVars, call>>

NextLong ==
    \/ ReadLongFile
    \/ ReadFileAgain
    \/ LinkParsedFiles
    \/ AssembleNodes
    \/ EmitGraph
    \/ CallAgain

SpecLong == InitLong /\ [][NextLong]_vars

(***************************************************************************)
(* The Path Resolver on its own: buildSuffixIndex over records given in    *)
(* any order, then resolveModuleTarget calls on the index.                 *)
(***************************************************************************)
\* the file paths of the records
RecordPaths ==
    { <<"c">>, <<"a", "/", "c">>, <<"b", "/", "c">>, <<"b", "/", "a", "/", "c">>,
      <<"x", "/", "b", "/", "c">> }

\* the declared paths handed to resolveModuleTarget
ModulePaths ==
    { <<"c">>, <<"a", "/", "c">>, <<"b", "/", "c">>, <<"a", "/", "b", "/", "c">>,
      <<"x", "/", "a", "/", "c">>, <<"b", "/", "a", "/", "c">>, <<"x", "/", "y", "/", "c">>,
      <<"m">>, <<"c", "/", "m">>, <<".", "/", "a", "/", "c">>, <<"a", "\\", "c">>,
      <<"/", "a", "/", "c">>, <<"a", "/", "c", "/">>, <<"a", "/", "/", "c">>, <<>> }

\* the sequences without repeats of at most n elements of S
InjectiveSeqs(S, n) ==
    UNION { {q \in [1..k -> S] : \A i, j \in 1..k : i # j => q[i] # q[j]} : k \in 0..n }

GraphIdle ==
    /\ fsFiles = <<>>
    /\ sourceTexts = <<>>
    /\ parsedFiles = <<>>
    /\ declsRead = 0
    /\ pc = "idle"
    /\ suffixIndex = EmptyMap
    /\ edges = <<>>
    /\ edgeKeys = {}
    /\ virtualNodes = <<>>
    /\ aliasCounts = EmptyMap
    /\ targetsByFile = EmptyMap
    /\ directConsumersByTarget = EmptyMap
    /\ edgeNumber = 0
    /\ nodes = <<>>
    /\ output = undefined

InitResolver ==
    /\ GraphIdle
    /\ \E paths \in InjectiveSeqs(RecordPaths, MaxRecords) :
          records = [i \in DOMAIN paths |-> [id |-> paths[i], filePath |-> paths[i]]]
    /\ index = EmptyMap
    /\ resolution = NoResolution
    /\ resolverPc = "start"
    /\ MainIdle
    /\ StripIdle
    /\ CallIdle

BuildIndex ==
    /\ resolverPc = "start"
    /\ index' = buildSuffixIndex(records)
    /\ resolverPc' = "indexed"
    /\ UNCHANGED <<records, resolution>>
    /\ UNCHANGED <<graphVars, mainVars, stripVars, call>>

Resolve ==
    /\ resolverPc \in {"indexed", "resolved"}
    /\ \E modulePath \in ModulePaths :
          resolution' = [modulePath |-> modulePath,
                         target |-> resolveModuleTarget(modulePath, index)]
    /\ resolverPc' = "resolved"
    /\ UNCHANGED <<records, index>>
    /\ UNCHANGED <<graphVars, mainVars, stripVars, call>>

NextResolver == BuildIndex \/ Resolve

SpecResolver == InitResolver /\ [][NextResolver]_vars

(***************************************************************************)
(* The reference resolution: a function of the declared path and of the    *)
(* set of indexed paths.                                                   *)
(***************************************************************************)
\* suffix is filePath, or the end of filePath that starts right after a slash
IsSegmentSuffix(suffix, filePath) ==
    /\ suffix # <<>>
    /\ Len(suffix) <= Len(filePath)
    /\ SubSeq(filePath, Len(filePath) - Len(suffix) + 1, Len(filePath)) = suffix
    /\ Len(suffix) < Len(filePath) => filePath[Len(filePath) - Len(suffix)] = "/"

MatchingFiles(suffix, filePaths) == {f \in filePaths : IsSegmentSuffix(suffix, f)}

\* attempt 0 is the whole normalized path, attempt k the path without its first k segments
Attempt(normalized, k) ==
    IF k = 0 THEN normalized ELSE JoinSlash(SliceFrom(Segments(normalized), k))

Attempts(normalized) == {0} \cup (1..(Len(Segments(normalized)) - 1))

ReferenceTarget(modulePath, filePaths) ==
    LET normalized == normalizePath(modulePath)
        decisive == {k \in Attempts(normalized) :
                        Cardinality(MatchingFiles(Attempt(normalized, k), filePaths)) = 1}
    IN  IF decisive = {} THEN undefined
        ELSE LET first == CHOOSE k \in decisive : \A other \in decisive : k <= other
             IN  CHOOSE f \in MatchingFiles(Attempt(normalized, first), filePaths) : TRUE

RecordPathSet == {records[i].filePath : i \in DOMAIN records}

\* C1: whatever the order of the records, resolveModuleTarget returns the file of the
\* first attempt (whole normalized path, then 1, 2, ... leading segments dropped) that
\* is a segment-suffix of exactly one indexed file, and undefined if there is none
C1_ResolveIsReference ==
    resolverPc = "resolved" =>
        resolution.target = ReferenceTarget(resolution.modulePath, RecordPathSet)

\* a resolution by a shorter suffix, over records that are not in sorted order, with
\* another record sharing the last segment
C1_Witness ==
    /\ resolverPc = "resolved"
    /\ resolution.target # undefined
    /\ resolution.target # normalizePath(resolution.modulePath)
    /\ Len(Segments(resolution.modulePath)) >= 3
    /\ Len(records) >= 2
    /\ localeCompare(records[1].id, records[2].id) > 0
    /\ resolution.target # records[1].id

(***************************************************************************)
(* The graph returned by buildGraph.                                       *)
(***************************************************************************)
Kinds == {"import", "reexport"}

IndexedPaths == {toPosixRelative(fsFiles[i]) : i \in DOMAIN fsFiles}

DeclaredPaths(file, kind) == IF kind = "import" THEN file.imports ELSE file.reexports

\* every attempt on the declared path matches no indexed file, or several
FailsResolution(declared) == ReferenceTarget(declared, IndexedPaths) = undefined

\* the id a declared path stands for: the file it resolves to, or the path itself
ExpectedTarget(declared) ==
    IF FailsResolution(declared) THEN declared ELSE ReferenceTarget(declared, IndexedPaths)

OutputNodes == Range(output.nodes)

OutputEdges == Range(output.edges)

HasEdge(source, target) == \E e \in OutputEdges : e.source = source /\ e.target = target

EdgesOf(kind, source, target) ==
    {k \in DOMAIN output.edges : /\ output.edges[k].kind = kind
                                 /\ output.edges[k].source = source
                                 /\ output.edges[k].target = target}

\* the normalized path a declaration declares
DeclaredTarget(declaration) == normalizePath(Trim(declaration.path))

\* C2: a declared import or re-export path whose every resolution attempt yields zero
\* or several matches gets an edge to a virtual node whose id is the declared path,
\* never to the node of an indexed file
C2_UnresolvedTargetsAreVirtual ==
    pc = "done" =>
        \A i \in DOMAIN parsedFiles : \A kind \in Kinds :
            \A declared \in Range(DeclaredPaths(parsedFiles[i], kind)) :
                FailsResolution(declared) =>
                    /\ EdgesOf(kind, parsedFiles[i].id, declared) # {}
                    /\ declared \notin IndexedPaths
                    /\ \E n \in OutputNodes : n.id = declared /\ n.isVirtual

\* C3: no two edges of the returned graph have the same (kind, source, target), and
\* the declarations of one kind in one file that stand for one target yield one edge
C3_EdgesAreDistinct ==
    pc = "done" =>
        /\ \A j, k \in DOMAIN output.edges :
              j # k => <<output.edges[j].kind, output.edges[j].source, output.edges[j].target>>
                       # <<output.edges[k].kind, output.edges[k].source, output.edges[k].target>>
        /\ \A i \in DOMAIN parsedFiles : \A kind \in Kinds :
              \A declared \in Range(DeclaredPaths(parsedFiles[i], kind)) :
                  Cardinality(EdgesOf(kind, parsedFiles[i].id, ExpectedTarget(declared))) = 1

\* a file with two different import spellings of one target
C3_Witness ==
    /\ pc = "done"
    /\ \E i \in DOMAIN parsedFiles : \E j, k \in DOMAIN parsedFiles[i].imports :
          /\ j # k
          /\ parsedFiles[i].imports[j] # parsedFiles[i].imports[k]
          /\ ExpectedTarget(parsedFiles[i].imports[j]) = ExpectedTarget(parsedFiles[i].imports[k])

\* C4: a declaration goes to reexports if it carries the export qualifier and to
\* imports if not, and to no other list; a file with a plain and an export-qualified
\* import of one path yields an "import" edge and a distinct "reexport" edge with the
\* same source and target
C4_ImportAndReexportAreDisjoint ==
    /\ \A i \in DOMAIN sourceTexts :
          LET decls == Range(sourceTexts[i].declarations)
              Declares(q, target) ==
                  \E d \in decls : d.qualifier = q /\ DeclaredTarget(d) = target
          IN  /\ \A target \in Range(parsedFiles[i].imports) : Declares(FALSE, target)
              /\ \A target \in Range(parsedFiles[i].reexports) : Declares(TRUE, target)
              /\ \A d \in decls :
                    DeclaredTarget(d) # <<>> =>
                        IF d.qualifier
                        THEN DeclaredTarget(d) \in Range(parsedFiles[i].reexports)
                        ELSE DeclaredTarget(d) \in Range(parsedFiles[i].imports)
    /\ pc = "done" =>
          \A i \in DOMAIN sourceTexts :
              \A d1, d2 \in Range(sourceTexts[i].declarations) :
                  (/\ ~d1.qualifier
                   /\ d2.qualifier
                   /\ DeclaredTarget(d1) = DeclaredTarget(d2)
                   /\ DeclaredTarget(d1) # <<>>) =>
                      LET target == ExpectedTarget(DeclaredTarget(d1))
                      IN  /\ Cardinality(EdgesOf("import", parsedFiles[i].id, target)) = 1
                          /\ Cardinality(EdgesOf("reexport", parsedFiles[i].id, target)) = 1
                          /\ EdgesOf("import", parsedFiles[i].id, target)
                                 \cap EdgesOf("reexport", parsedFiles[i].id, target) = {}
                          /\ \A j \in EdgesOf("import", parsedFiles[i].id, target) :
                                \A k \in EdgesOf("reexport", parsedFiles[i].id, target) :
                                    output.edges[j].id # output.edges[k].id

\* a file that declares a plain and an export-qualified import of one path
C4_Witness ==
    /\ pc = "done"
    /\ \E i \in DOMAIN sourceTexts : \E d1, d2 \in Range(sourceTexts[i].declarations) :
          ~d1.qualifier /\ d2.qualifier /\ DeclaredTarget(d1) = DeclaredTarget(d2)

\* the normalized non-empty paths of the declarations with qualifier q, in text order
TargetsInOrder(declarations, q) ==
    LET chosen == SelectSeq(declarations,
                            LAMBDA d : d.qualifier = q /\ DeclaredTarget(d) # <<>>)
    IN  [k \in DOMAIN chosen |-> DeclaredTarget(chosen[k])]

FirstIndex(seq, x) == CHOOSE k \in DOMAIN seq : seq[k] = x /\ \A j \in 1..(k - 1) : seq[j] # x

\* list holds each element of targets once, in the order of their first occurrences
IsFirstOccurrenceList(list, targets) ==
    /\ Range(list) = Range(targets)
    /\ \A a, b \in DOMAIN list :
          a < b => /\ list[a] # list[b]
                   /\ FirstIndex(targets, list[a]) < FirstIndex(targets, list[b])

\* two declarations of one category and one path whose version strings differ
SamePathOtherVersion(d1, d2) ==
    /\ d1.qualifier = d2.qualifier
    /\ DeclaredTarget(d1) = DeclaredTarget(d2)
    /\ DeclaredTarget(d1) # <<>>
    /\ d1.version # d2.version

\* C5: imports and reexports each hold the normalized declared paths of their
\* category without duplicates, in order of first occurrence; two declarations of one
\* path with different versions yield one list entry and one edge
C5_ParseImportsDeduplicates ==
    /\ \A i \in DOMAIN sourceTexts :
          /\ IsFirstOccurrenceList(parsedFiles[i].imports,
                                   TargetsInOrder(sourceTexts[i].declarations, FALSE))
          /\ IsFirstOccurrenceList(parsedFiles[i].reexports,
                                   TargetsInOrder(sourceTexts[i].declarations, TRUE))
    /\ pc = "done" =>
          \A i \in DOMAIN sourceTexts :
              \A d1, d2 \in Range(sourceTexts[i].declarations) :
                  SamePathOtherVersion(d1, d2) =>
                      LET kind == IF d1.qualifier THEN "reexport" ELSE "import"
                          list == DeclaredPaths(parsedFiles[i], kind)
                      IN  /\ Cardinality({k \in DOMAIN list : list[k] = DeclaredTarget(d1)}) = 1
                          /\ Cardinality(EdgesOf(kind, parsedFiles[i].id,
                                                 ExpectedTarget(DeclaredTarget(d1)))) = 1

\* a file with two declarations of one path and different versions, after another path
C5_Witness ==
    /\ pc = "done"
    /\ \E i \in DOMAIN sourceTexts :
          \E j, k \in DOMAIN sourceTexts[i].declarations :
              /\ j < k
              /\ SamePathOtherVersion(sourceTexts[i].declarations[j],
                                      sourceTexts[i].declarations[k])

\* the node of an indexed file in the returned graph
NodeOfFile(id) == CHOOSE n \in OutputNodes : n.id = id /\ ~n.isVirtual

\* consumer is listed as a user of symbol in the node of the file id
IsListedUser(id, symbol, consumer) ==
    /\ symbol \in DOMAIN NodeOfFile(id).symbolUsers
    /\ consumer \in Range(NodeOfFile(id).symbolUsers[symbol])

\* consumer has an edge to the file id and holds the token symbol
IsQualifyingUser(id, symbol, consumer) ==
    /\ HasEdge(consumer.id, id)
    /\ symbol \in consumer.tokens

C7_UserListsAreSortedAndNonEmpty ==
    pc = "done" =>
        \A n \in OutputNodes :
            /\ \A symbol \in DOMAIN n.symbolUsers :
                  LET users == n.symbolUsers[symbol]
                  IN  /\ Len(users) > 0
                      /\ \A k \in 1..(Len(users) - 1) : localeCompare(users[k], users[k + 1]) < 0
            /\ \A symbol \in Range(n.exports) :
                  (\A b \in DOMAIN parsedFiles : ~IsQualifyingUser(n.id, symbol, parsedFiles[b]))
                      => symbol \notin DOMAIN n.symbolUsers

\* a symbol with two users, and an exported symbol of another file with none
C7_Witness ==
    /\ pc = "done"
    /\ \E n, m \in OutputNodes :
          /\ \E symbol \in DOMAIN n.symbolUsers : Len(n.symbolUsers[symbol]) >= 2
          /\ m.exports # <<>>
          /\ DOMAIN m.symbolUsers = {}

\* C8: the id of a file is in no list of the symbolUsers of its own node
C8_UsersAreOtherFiles ==
    pc = "done" =>
        \A n \in OutputNodes : \A symbol \in DOMAIN n.symbolUsers :
            n.id \notin Range(n.symbolUsers[symbol])

\* C9: every collected file is exactly one node of the list, not virtual, with its
\* root-relative path as id, and no two nodes of the list have the same id
C9_EveryFileIsOneNode ==
    pc = "done" =>
        /\ \A i \in DOMAIN fsFiles :
              LET id == toPosixRelative(fsFiles[i])
              IN  /\ Cardinality({k \in DOMAIN output.nodes : output.nodes[k].id = id}) = 1
                  /\ \A n \in OutputNodes : n.id = id => ~n.isVirtual /\ n.filePath = id
        /\ \A j, k \in DOMAIN output.nodes : j # k => output.nodes[j].id # output.nodes[k].id

\* C10: each declared path that fails resolution has exactly one node, a virtual one
\* with the sentinel filePath, empty lists and map, and zero counts
C10_OneVirtualNodePerUnresolvedPath ==
    pc = "done" =>
        \A i \in DOMAIN parsedFiles : \A kind \in Kinds :
            \A declared \in Range(DeclaredPaths(parsedFiles[i], kind)) :
                FailsResolution(declared) =>
                    /\ Cardinality({k \in DOMAIN output.nodes :
                                       output.nodes[k].id = declared}) = 1
                    /\ \A n \in OutputNodes :
                          n.id = declared =>
                              /\ n.isVirtual
                              /\ n.filePath = "(unresolved module)"
                              /\ n.imports = <<>> /\ n.reexports = <<>>
                              /\ n.importTargets = <<>> /\ n.reexportTargets = <<>>
                              /\ n.exports = <<>>
                              /\ DOMAIN n.symbolUsers = {}
                              /\ n.importCount = 0 /\ n.reexportCount = 0
                              /\ n.exportCount = 0
                              /\ n.loc = 0 /\ n.functionCount = 0

\* the id of edge number n
EdgeId(n) == <<"e">> \o Decimal(n)

\* C11: the ids of the N edges of the returned graph are e1 .. eN, each the id of
\* exactly one edge; a declaration collapsed into a known edge takes no number
C11_EdgeIdsAreOneToN ==
    pc = "done" =>
        /\ \A n \in 1..Len(output.edges) :
              Cardinality({k \in DOMAIN output.edges : output.edges[k].id = EdgeId(n)}) = 1
        /\ edgeNumber = Len(output.edges)

\* ten edges or more, from a file in which a declaration was collapsed into the edge
\* of an earlier one and others came after it
C11_Witness ==
    /\ pc = "done"
    /\ Len(output.edges) >= 10
    /\ \E f \in DOMAIN parsedFiles :
          \E j, k \in DOMAIN parsedFiles[f].imports :
              /\ j < k
              /\ k < Len(parsedFiles[f].imports)
              /\ ResolvedTarget(parsedFiles[f].imports[j], suffixIndex)
                     = ResolvedTarget(parsedFiles[f].imports[k], suffixIndex)

\* C12: the edge at position k of the returned list has the id e<k>, for every number
\* of edges: the list is in the order of the numbers, the order of first discovery
C12_EdgesAreInNumberOrder ==
    pc = "done" =>
        \A k \in DOMAIN output.edges : output.edges[k].id = EdgeId(k)

\* C13: a later call of buildGraph on the unchanged tree returns what the earlier
\* calls returned (the elements; root is the argument and generatedAt is excepted)
C13_CallsReturnTheSame ==
    pc = "done" =>
        \A earlier \in DOMAIN previousOutputs : previousOutputs[earlier] = output

\* a second call that returned a graph with edges, a virtual node and an alias
C13_Witness ==
    /\ pc = "done"
    /\ Len(previousOutputs) >= 1
    /\ Len(output.edges) >= 2
    /\ \E n \in OutputNodes : n.isVirtual
    /\ \E n \in OutputNodes : ~n.isVirtual /\ n.modulePath # n.filePath

\* the graph assembly of buildGraph over parsed files taken in the order of files:
\* suffix index, first loop, second loop, merge of the virtual nodes, sorts
GraphOf(files) ==
    LET sIndex == buildSuffixIndex(files)
        g == LinkFiles(EmptyGraphState, files, sIndex, {files[i].id : i \in DOMAIN files})
        merged == MergeVirtualNodes(
                      FileNodes(files, g.targetsByFile, g.aliasCounts,
                                g.directConsumersByTarget),
                      g.virtualNodes)
    IN  [nodes |-> SortBy(merged, ById(merged)), edges |-> SortBy(g.edges, ById(g.edges))]

\* the same parsed files in every order
Reorderings(files) ==
    {[i \in DOMAIN files |-> files[p[i]]] : p \in Permutations(DOMAIN files)}

StripIterationDroppingCommentNewline(s) ==
    LET ch == s.source[s.i + 1]
        next == IF s.i + 2 <= Len(s.source) THEN s.source[s.i + 2] ELSE "<undefined>"
        Passed(n, mode) == [s EXCEPT !.i = @ + n, !.consumedIn = @ \o [k \in 1..n |-> mode]]
    IN  IF s.inLineComment
        THEN IF ch = "\n"
             THEN [Passed(1, "line") EXCEPT !.inLineComment = FALSE]
             ELSE Passed(1, "line")
        ELSE IF s.inBlockComment
        THEN IF ch = "*" /\ next = "/"
             THEN [Passed(2, "block") EXCEPT !.inBlockComment = FALSE]
             ELSE IF ch = "\n"
             THEN [Passed(1, "block") EXCEPT !.out = Append(@, "\n")]
             ELSE Passed(1, "block")
        ELSE IF s.inString
        THEN [Passed(1, "string") EXCEPT
                 !.out = Append(@, ch),
                 !.escaped = IF s.escaped THEN FALSE ELSE ch = "\\",
                 !.inString = IF s.escaped \/ ch = "\\" THEN TRUE ELSE ch # "\""]
        ELSE IF ch = "\""
        THEN [Passed(1, "string") EXCEPT !.inString = TRUE, !.out = Append(@, ch)]
        ELSE IF ch = "/" /\ next = "/"
        THEN [Passed(2, "line") EXCEPT !.inLineComment = TRUE]
        ELSE IF ch = "/" /\ next = "*"
        THEN [Passed(2, "block") EXCEPT !.inBlockComment = TRUE]
        ELSE [Passed(1, "code") EXCEPT !.out = Append(@, ch)]

\* an iteration that looks for the start of a comment before it looks at the string mode
StripIterationCommentsFirst(s) ==
    LET ch == s.source[s.i + 1]
        next == IF s.i + 2 <= Len(s.source) THEN s.source[s.i + 2] ELSE "<undefined>"
        Passed(n, mode) == [s EXCEPT !.i = @ + n, !.consumedIn = @ \o [k \in 1..n |-> mode]]
    IN  IF s.inLineComment
        THEN IF ch = "\n"
             THEN [Passed(1, "line") EXCEPT !.inLineComment = FALSE, !.out = Append(@, "\n")]
             ELSE Passed(1, "line")
        ELSE IF s.inBlockComment
        THEN IF ch = "*" /\ next = "/"
             THEN [Passed(2, "block") EXCEPT !.inBlockComment = FALSE]
             ELSE IF ch = "\n"
             THEN [Passed(1, "block") EXCEPT !.out = Append(@, "\n")]
             ELSE Passed(1, "block")
        ELSE IF ch = "/" /\ next = "/"
        THEN [Passed(2, "line") EXCEPT !.inLineComment = TRUE]
        ELSE IF ch = "/" /\ next = "*"
        THEN [Passed(2, "block") EXCEPT !.inBlockComment = TRUE]
        ELSE IF s.inString
        THEN [Passed(1, "string") EXCEPT
                 !.out = Append(@, ch),
                 !.escaped = IF s.escaped THEN FALSE ELSE ch = "\\",
                 !.inString = IF s.escaped \/ ch = "\\" THEN TRUE ELSE ch # "\""]
        ELSE IF ch = "\""
        THEN [Passed(1, "string") EXCEPT !.inString = TRUE, !.out = Append(@, ch)]
        ELSE [Passed(1, "code") EXCEPT !.out = Append(@, ch)]

\* an iteration that scans an escaped character of a string a second time
StripIterationRescanningEscapes(s) ==
    LET ch == s.source[s.i + 1]
        next == IF s.i + 2 <= Len(s.source) THEN s.source[s.i + 2] ELSE "<undefined>"
        Passed(n, mode) == [s EXCEPT !.i = @ + n, !.consumedIn = @ \o [k \in 1..n |-> mode]]
    IN  IF s.inLineComment
        THEN IF ch = "\n"
             THEN [Passed(1, "line") EXCEPT !.inLineComment = FALSE, !.out = Append(@, "\n")]
             ELSE Passed(1, "line")
        ELSE IF s.inBlockComment
        THEN IF ch = "*" /\ next = "/"
             THEN [Passed(2, "block") EXCEPT !.inBlockComment = FALSE]
             ELSE IF ch = "\n"
             THEN [Passed(1, "block") EXCEPT !.out = Append(@, "\n")]
             ELSE Passed(1, "block")
        ELSE IF s.inString
        THEN IF s.escaped
             THEN [s EXCEPT !.out = Append(@, ch), !.escaped = FALSE]
             ELSE [Passed(1, "string") EXCEPT
                      !.out = Append(@, ch),
                      !.escaped = ch = "\\",
                      !.inString = IF ch = "\\" THEN TRUE ELSE ch # "\""]
        ELSE IF ch = "\""
        THEN [Passed(1, "string") EXCEPT !.inString = TRUE, !.out = Append(@, ch)]
        ELSE IF ch = "/" /\ next = "/"
        THEN [Passed(2, "line") EXCEPT !.inLineComment = TRUE]
        ELSE IF ch = "/" /\ next = "*"
        THEN [Passed(2, "block") EXCEPT !.inBlockComment = TRUE]
        ELSE [Passed(1, "code") EXCEPT !.out = Append(@, ch)]

\* an iteration that emits the characters of a line comment
StripIterationEmittingLineComments(s) ==
    LET ch == s.source[s.i + 1]
        next == IF s.i + 2 <= Len(s.source) THEN s.source[s.i + 2] ELSE "<undefined>"
        Passed(n, mode) == [s EXCEPT !.i = @ + n, !.consumedIn = @ \o [k \in 1..n |-> mode]]
    IN  IF s.inLineComment
        THEN IF ch = "\n"
             THEN [Passed(1, "line") EXCEPT !.inLineComment = FALSE, !.out = Append(@, "\n")]
             ELSE [Passed(1, "line") EXCEPT !.out = Append(@, ch)]
        ELSE IF s.inBlockComment
        THEN IF ch = "*" /\ next = "/"
             THEN [Passed(2, "block") EXCEPT !.inBlockComment = FALSE]
             ELSE IF ch = "\n"
             THEN [Passed(1, "block") EXCEPT !.out = Append(@, "\n")]
             ELSE Passed(1, "block")
        ELSE IF s.inString
        THEN [Passed(1, "string") EXCEPT
                 !.out = Append(@, ch),
                 !.escaped = IF s.escaped THEN FALSE ELSE ch = "\\",
                 !.inString = IF s.escaped \/ ch = "\\" THEN TRUE ELSE ch # "\""]
        ELSE IF ch = "\""
        THEN [Passed(1, "string") EXCEPT !.inString = TRUE, !.out = Append(@, ch)]
        ELSE IF ch = "/" /\ next = "/"
        THEN [Passed(2, "line") EXCEPT !.inLineComment = TRUE]
        ELSE IF ch = "/" /\ next = "*"
        THEN [Passed(2, "block") EXCEPT !.inBlockComment = TRUE]
        ELSE [Passed(1, "code") EXCEPT !.out = Append(@, ch)]

\* one iteration of the while loop on the locals s; consumedIn is an observation:
\* for each character of source the scan has passed, the mode it was passed in
StripIteration(s) ==
    LET ch == s.source[s.i + 1]
        next == IF s.i + 2 <= Len(s.source) THEN s.source[s.i + 2] ELSE "<undefined>"
        Passed(n, mode) == [s EXCEPT !.i = @ + n, !.consumedIn = @ \o [k \in 1..n |-> mode]]
    IN  IF s.inLineComment
        THEN IF ch = "\n"
             THEN [Passed(1, "line") EXCEPT !.inLineComment = FALSE, !.out = Append(@, "\n")]
             ELSE Passed(1, "line")
        ELSE IF s.inBlockComment
        THEN IF ch = "*" /\ next = "/"
             THEN [Passed(2, "block") EXCEPT !.inBlockComment = FALSE]
             ELSE IF ch = "\n"
             THEN [Passed(1, "block") EXCEPT !.out = Append(@, "\n")]
             ELSE Passed(1, "block")
        ELSE IF s.inString
        THEN [Passed(1, "string") EXCEPT
                 !.out = Append(@, ch),
                 !.escaped = IF s.escaped THEN FALSE ELSE ch = "\\",
                 !.inString = IF s.escaped \/ ch = "\\" THEN TRUE ELSE ch # "\""]
        ELSE IF ch = "\""
        THEN [Passed(1, "string") EXCEPT !.inString = TRUE, !.out = Append(@, ch)]
        ELSE IF ch = "/" /\ next = "/"
        THEN [Passed(2, "line") EXCEPT !.inLineComment = TRUE]
        ELSE IF ch = "/" /\ next = "*"
        THEN [Passed(2, "block") EXCEPT !.inBlockComment = TRUE]
        ELSE [Passed(1, "code") EXCEPT !.out = Append(@, ch)]

\* the characters \s matches
SpaceChars == {" ", "\n", "\t", "\r"}

\* the characters that are no word characters (\b is between a word character and one
\* of these, or an end of the text)
NonWordChars == SpaceChars \cup {"\"", "\\", "/", "*", "(", ")", ":", ",", ";", "."}

RECURSIVE SkipSpace(_, _)
\* \s* from position p: the position after the white space
SkipSpace(text, p) ==
    IF p <= Len(text) /\ text[p] \in SpaceChars THEN SkipSpace(text, p + 1) ELSE p

RECURSIVE MatchChars(_, _, _)
\* \s*c for each c of chars in turn, from position p: the position after the last one,
\* or 0 if the text does not match
MatchChars(text, p, chars) ==
    IF chars = <<>> THEN p
    ELSE LET q == SkipSpace(text, p)
         IN  IF q <= Len(text) /\ text[q] = Head(chars)
             THEN MatchChars(text, q + 1, Tail(chars))
             ELSE 0

RECURSIVE NextQuote(_, _)
\* the position of the first double quote at or after p, or 0
NextQuote(text, p) ==
    IF p > Len(text) THEN 0
    ELSE IF text[p] = "\"" THEN p
    ELSE NextQuote(text, p + 1)

NoMatch == [end |-> 0]

\* the pattern after the keyword import, from position p:
\* \s*\(\s*path\s*:\s*"([^"]+)"\s*,\s*version\s*:\s*"[^"]*"\s*\)\s*;
MatchAfterImport(text, p, qualifier) ==
    LET pathStart == MatchChars(text, p, <<"(", "path", ":", "\"">>)
        pathEnd == IF pathStart = 0 THEN 0 ELSE NextQuote(text, pathStart)
        versionStart == IF pathEnd = 0 \/ pathEnd = pathStart THEN 0
                        ELSE MatchChars(text, pathEnd + 1, <<",", "version", ":", "\"">>)
        versionEnd == IF versionStart = 0 THEN 0 ELSE NextQuote(text, versionStart)
        end == IF versionEnd = 0 THEN 0 ELSE MatchChars(text, versionEnd + 1, <<")", ";">>)
    IN  IF end = 0 THEN NoMatch
        ELSE [end |-> end, qualifier |-> qualifier,
              path |-> SubSeq(text, pathStart, pathEnd - 1)]

\* the pattern at position p: \b(export\s+)?import and the rest
MatchImportAt(text, p) ==
    IF p > 1 /\ text[p - 1] \notin NonWordChars THEN NoMatch
    ELSE IF text[p] = "import" THEN MatchAfterImport(text, p + 1, FALSE)
    ELSE IF /\ text[p] = "export"
            /\ p + 1 <= Len(text)
            /\ text[p + 1] \in SpaceChars
            /\ SkipSpace(text, p + 1) <= Len(text)
            /\ text[SkipSpace(text, p + 1)] = "import"
    THEN MatchAfterImport(text, SkipSpace(text, p + 1) + 1, TRUE)
    ELSE NoMatch

RECURSIVE ExecImportPatternFrom(_, _)
\* pattern.exec(text) again and again from lastIndex p - 1: the matches, in order
ExecImportPatternFrom(text, p) ==
    IF p > Len(text) THEN <<>>
    ELSE LET found == MatchImportAt(text, p)
         IN  IF found.end = 0 THEN ExecImportPatternFrom(text, p + 1)
             ELSE <<[qualifier |-> found.qualifier, path |-> found.path]>>
                      \o ExecImportPatternFrom(text, found.end)

\* parseImports on a text
parseImportsOfText(text) == CollectImports(ExecImportPatternFrom(text, 1), NoImports)

\* the characters of the texts scanned character by character
ScanChars == {"\"", "\\", "/", "*", "\n", "x"}

\* an import declaration
DeclarationText ==
    <<"import", "(", "path", ":", "\"", "a", "\"", ",", "version", ":", "\"", "1", "\"", ")", ";">>

\* the fragments of the texts made of fragments
Fragments ==
    { DeclarationText, <<"/", "/">>, <<"/", "*">>, <<"*", "/">>, <<"\n">>, <<"\"">>,
      <<"export", " ">> }

RECURSIVE Concat(_)
Concat(pieces) == IF pieces = <<>> THEN <<>> ELSE Head(pieces) \o Concat(Tail(pieces))

\* the texts of the model
Texts ==
    UNION {[1..n -> ScanChars] : n \in 0..MaxTextLen}
        \cup {Concat(pieces) : pieces \in UNION {[1..n -> Fragments] : n \in 0..MaxFragments}}

\* stripComments is called on a text
InitStrip ==
    /\ GraphIdle
    /\ ResolverIdle
    /\ MainIdle
    /\ CallIdle
    /\ parsedImports = NoImports
    /\ \E text \in Texts :
          strip = [pc |-> "scan", source |-> text, out |-> <<>>, i |-> 0,
                   inString |-> FALSE, inLineComment |-> FALSE, inBlockComment |-> FALSE,
                   escaped |-> FALSE, consumedIn |-> <<>>]

\* an iteration of the while loop
StripStep ==
    /\ strip.pc = "scan"
    /\ strip.i < Len(strip.source)
    /\ strip' = StripIteration(strip)
    /\ UNCHANGED <<graphVars, resolverVars, mainVars, parsedImports, call>>

\* the loop ends and out is returned
StripReturn ==
    /\ strip.pc = "scan"
    /\ strip.i >= Len(strip.source)
    /\ strip' = [strip EXCEPT !.pc = "returned"]
    /\ UNCHANGED <<graphVars, resolverVars, mainVars, parsedImports, call>>

\* parseImports(stripped)
ParseStripped ==
    /\ strip.pc = "returned"
    /\ parsedImports' = parseImportsOfText(strip.out)
    /\ strip' = [strip EXCEPT !.pc = "parsed"]
    /\ UNCHANGED <<graphVars, resolverVars, mainVars, call>>

NextStrip == StripStep \/ StripReturn \/ ParseStripped

\* the loop of stripComments is synchronous code: once entered it runs to its return
SpecStrip == InitStrip /\ [][NextStrip]_vars /\ WF_vars(StripStep \/ StripReturn)

NewlineCount(text) == Cardinality({p \in DOMAIN text : text[p] = "\n"})

\* stripComments has returned
Returned == strip.pc \in {"returned", "parsed"}

\* the positions of the keyword import in the text given to stripComments
ImportPositions == {p \in DOMAIN strip.source : strip.source[p] = "import"}

\* C15: the text stripComments returns has exactly as many newline characters as the
\* text it was given
C15_NewlinesArePreserved ==
    Returned => NewlineCount(strip.out) = NewlineCount(strip.source)

\* a text with a newline that ends a line comment and a newline inside a block comment
C15_Witness ==
    /\ Returned
    /\ \E p, q \in DOMAIN strip.source :
          /\ strip.source[p] = "\n" /\ strip.consumedIn[p] = "line"
          /\ strip.source[q] = "\n" /\ strip.consumedIn[q] = "block"

\* C16: an iteration in string mode copies the character to the output and passes it,
\* starts no comment, and does not end the string on an escaped double quote; a text in
\* which every slash is inside a string literal is returned unchanged
C16_StringsAreCopied ==
    /\ [][(strip.pc = "scan" /\ strip.inString /\ strip'.i # strip.i) =>
             /\ strip'.out = Append(strip.out, strip.source[strip.i + 1])
             /\ strip'.i = strip.i + 1
             /\ ~strip'.inLineComment
             /\ ~strip'.inBlockComment
             /\ (strip.escaped /\ strip.source[strip.i + 1] = "\"") => strip'.inString]_vars
    /\ [](Returned =>
             ((\A p \in DOMAIN strip.source :
                  strip.source[p] = "/" => strip.consumedIn[p] = "string")
                 => strip.out = strip.source))

\* a string literal with an escaped double quote and, after it, two slashes
C16_Witness ==
    /\ Returned
    /\ \E p \in DOMAIN strip.source :
          /\ p + 3 <= Len(strip.source)
          /\ strip.source[p] = "\\"
          /\ strip.source[p + 1] = "\""
          /\ strip.source[p + 2] = "/"
          /\ strip.source[p + 3] = "/"
          /\ \A q \in p..(p + 3) : strip.consumedIn[q] = "string"
    /\ strip.out = strip.source

\* C17: the scan position grows at every iteration, the loop ends on every text, and it
\* ends at the end of the text in whatever mode it is in
C17_ScanTerminates ==
    /\ [][(strip.pc = "scan" /\ strip'.pc = "scan") => strip'.i > strip.i]_vars
    /\ <>Returned
    /\ [](Returned => strip.i >= Len(strip.source))

\* a text that ends inside a block comment after a string
C17_Witness ==
    /\ Returned
    /\ strip.inBlockComment
    /\ strip.out # <<>>
    /\ \E p \in DOMAIN strip.source : strip.consumedIn[p] = "string"

\* the ParsedFile record of the text, under the path c
TextFile ==
    [id |-> <<"c">>, filePath |-> <<"c">>, loc |-> 0, functionCount |-> 0,
     imports |-> parsedImports.imports, reexports |-> parsedImports.reexports,
     exportedSymbols |-> <<>>, tokens |-> {}]

\* the edges of the graph of the tree that holds this file only
TextFileEdges ==
    LinkFiles(EmptyGraphState, <<TextFile>>, buildSuffixIndex(<<TextFile>>), {TextFile.id}).edges

\* C18: a text whose import keywords are all passed in line comment or block comment
\* mode gives no entry in imports or reexports and no edge
C18_CommentedDeclarationsAreSkipped ==
    (/\ strip.pc = "parsed"
     /\ \A p \in ImportPositions : strip.consumedIn[p] \in {"line", "block"})
        => /\ parsedImports = NoImports
           /\ TextFileEdges = <<>>

\* a whole declaration inside a block comment that is closed
C18_Witness ==
    /\ strip.pc = "parsed"
    /\ ImportPositions # {}
    /\ \A p \in ImportPositions : strip.consumedIn[p] = "block"
    /\ ~strip.inBlockComment
    /\ MatchImportAt(strip.source, CHOOSE p \in ImportPositions : TRUE).end # 0

\* C19: a text whose import keywords are all inside string literals gives empty imports
\* and reexports
C19_StringsAreNotDeclarations ==
    (/\ strip.pc = "parsed"
     /\ \A p \in ImportPositions : strip.consumedIn[p] = "string")
        => parsedImports = NoImports

(***************************************************************************)
(* main: the root is checked, buildGraph collects the files directory by   *)
(* directory and reads them one by one, and the graph it returns is        *)
(* written. Every await can reject; a rejection leaves main and reaches    *)
(* the handler given to main().catch. The run is one without               *)
(* --onshape-map, so lines 733-751 are passed over.                        *)
(***************************************************************************)
\* the files a tree given to main can hold
MainTreePaths == { <<"c">>, <<"a", "/", "c">>, <<"b", "/", "a", "/", "c">> }

SlashPositions(p) == {k \in DOMAIN p : p[k] = "/"}

\* the directory that holds the file or directory p; the root is the empty path
ParentDir(p) ==
    IF SlashPositions(p) = {} THEN <<>>
    ELSE SubSeq(p, 1, (CHOOSE k \in SlashPositions(p) : \A j \in SlashPositions(p) : j <= k) - 1)

\* the directories of a tree below its root
TreeDirs(tree) == UNION { {SubSeq(p, 1, k - 1) : k \in SlashPositions(p)} : p \in tree }

\* the process is at a point of main before buildGraph is called, with one of the
\* argument lists and with a root that holds one of the trees
MainAt(at, argvs, treePaths) ==
    /\ argv \in argvs
    /\ \E tree \in SUBSET treePaths :
          /\ Cardinality(tree) <= MaxFiles
          /\ walk = NoWalk(tree)
    /\ fsFiles = <<>>
    /\ sourceTexts = <<>>
    /\ parsedFiles = <<>>
    /\ declsRead = 0
    /\ pc = at
    /\ suffixIndex = EmptyMap
    /\ edges = <<>>
    /\ edgeKeys = {}
    /\ virtualNodes = <<>>
    /\ aliasCounts = EmptyMap
    /\ targetsByFile = EmptyMap
    /\ directConsumersByTarget = EmptyMap
    /\ edgeNumber = 0
    /\ nodes = <<>>
    /\ output = undefined
    /\ previousOutputs = <<>>
    /\ error = "none"
    /\ exitCode = 0
    /\ outFile = [written |-> FALSE]
    /\ ResolverIdle
    /\ StripIdle
    /\ CallIdle

\* main has parsed its arguments, which name a root
InitMain == MainAt("main", {<<"--root", "r">>}, MainTreePaths)

\* an await of main or of buildGraph rejects: the rest of main is not run
Reject(reason) ==
    /\ error' = reason
    /\ pc' = "failed"
    /\ UNCHANGED <<fsFiles, sourceTexts, parsedFiles, declsRead, suffixIndex, edges, edgeKeys,
                   virtualNodes, aliasCounts, targetsByFile, directConsumersByTarget,
                   edgeNumber, nodes, output>>
    /\ UNCHANGED <<previousOutputs, argv, walk, exitCode, outFile>>
    /\ UNCHANGED <<resolverVars, stripVars, call>>

\* the root is a directory: buildGraph is called and collectFsFiles walks from the root
StatRoot ==
    /\ pc = "main"
    /\ walk' = [walk EXCEPT !.todo = << <<>> >>]
    /\ pc' = "walk"
    /\ UNCHANGED <<fsFiles, sourceTexts, parsedFiles, declsRead, suffixIndex, edges, edgeKeys,
                   virtualNodes, aliasCounts, targetsByFile, directConsumersByTarget,
                   edgeNumber, nodes, output>>
    /\ UNCHANGED <<previousOutputs, argv, error, exitCode, outFile>>
    /\ UNCHANGED <<resolverVars, stripVars, call>>

\* stat fails or the root is no directory: main throws
RootIsNoDirectory ==
    /\ pc = "main"
    /\ Reject("root")

\* walk lists the next directory: its files join the list, its directories are walked
\* next, in the order of their names (the files of a directory that come after one of
\* its directories join the list here, before that directory is walked: the list is
\* local to collectFsFiles and is sorted before it is returned)
ListDirectory ==
    /\ pc = "walk"
    /\ walk.todo # <<>>
    /\ LET currentDir == Head(walk.todo)
           directories == {d \in TreeDirs(walk.tree) : ParentDir(d) = currentDir}
           files == {f \in walk.tree : ParentDir(f) = currentDir}
       IN  walk' = [walk EXCEPT !.todo = SortedFiles(directories) \o Tail(walk.todo),
                                !.files = walk.files \cup files]
    /\ UNCHANGED <<fsFiles, sourceTexts, parsedFiles, declsRead, pc, suffixIndex, edges,
                   edgeKeys, virtualNodes, aliasCounts, targetsByFile,
                   directConsumersByTarget, edgeNumber, nodes, output>>
    /\ UNCHANGED <<previousOutputs, argv, error, exitCode, outFile>>
    /\ UNCHANGED <<resolverVars, stripVars, call>>

\* readdir rejects
ListFails ==
    /\ pc = "walk"
    /\ walk.todo # <<>>
    /\ Reject("readdir")

\* the walk is over: the files are sorted and returned to buildGraph
ReturnFiles ==
    /\ pc = "walk"
    /\ walk.todo = <<>>
    /\ fsFiles' = SortedFiles(walk.files)
    /\ pc' = "read"
    /\ UNCHANGED <<sourceTexts, parsedFiles, declsRead, suffixIndex, edges, edgeKeys,
                   virtualNodes, aliasCounts, targetsByFile, directConsumersByTarget,
                   edgeNumber, nodes, output>>
    /\ UNCHANGED <<mainVars, resolverVars, stripVars, call>>

\* readFile rejects
ReadFails ==
    /\ pc = "read"
    /\ Len(parsedFiles) < Len(fsFiles)
    /\ Reject("readFile")

\* a write that does not wait for buildGraph: the graph of the files read so far
WriteOutputAsFilesAreRead ==
    /\ pc \in {"read", "done"}
    /\ outFile' = [written |-> TRUE, complete |-> pc = "done", graph |-> output]
    /\ pc' = IF pc = "done" THEN "exited" ELSE pc
    /\ UNCHANGED <<fsFiles, sourceTexts, parsedFiles, declsRead, suffixIndex, edges, edgeKeys,
                   virtualNodes, aliasCounts, targetsByFile, directConsumersByTarget,
                   edgeNumber, nodes, output>>
    /\ UNCHANGED <<previousOutputs, argv, walk, error, exitCode>>
    /\ UNCHANGED <<resolverVars, stripVars, call>>

\* buildGraph has returned: the directory of the output file is made, the graph is
\* written, the counts are logged and main returns
WriteOutput ==
    /\ pc = "done"
    /\ outFile' = [written |-> TRUE, complete |-> TRUE, graph |-> output]
    /\ pc' = "exited"
    /\ UNCHANGED <<fsFiles, sourceTexts, parsedFiles, declsRead, suffixIndex, edges, edgeKeys,
                   virtualNodes, aliasCounts, targetsByFile, directConsumersByTarget,
                   edgeNumber, nodes, output>>
    /\ UNCHANGED <<previousOutputs, argv, walk, error, exitCode>>
    /\ UNCHANGED <<resolverVars, stripVars, call>>

\* mkdir rejects, or writeFile rejects after it wrote nothing or a part of the text
WriteFails ==
    /\ pc = "done"
    /\ \E reason \in {"mkdir", "writeFile"}, part \in BOOLEAN :
          /\ part => reason = "writeFile"
          /\ error' = reason
          /\ outFile' = IF part THEN [written |-> TRUE, complete |-> FALSE, graph |-> output]
                        ELSE outFile
    /\ pc' = "failed"
    /\ UNCHANGED <<fsFiles, sourceTexts, parsedFiles, declsRead, suffixIndex, edges, edgeKeys,
                   virtualNodes, aliasCounts, targetsByFile, directConsumersByTarget,
                   edgeNumber, nodes, output>>
    /\ UNCHANGED <<previousOutputs, argv, walk, exitCode>>
    /\ UNCHANGED <<resolverVars, stripVars, call>>

\* the handler of main().catch: the message is logged and the exit code is set
Catch ==
    /\ pc = "failed"
    /\ exitCode' = 1
    /\ pc' = "exited"
    /\ UNCHANGED <<fsFiles, sourceTexts, parsedFiles, declsRead, suffixIndex, edges, edgeKeys,
                   virtualNodes, aliasCounts, targetsByFile, directConsumersByTarget,
                   edgeNumber, nodes, output>>
    /\ UNCHANGED <<previousOutputs, argv, walk, error, outFile>>
    /\ UNCHANGED <<resolverVars, stripVars, call>>

NextMain ==
    \/ StatRoot
    \/ RootIsNoDirectory
    \/ ListDirectory
    \/ ListFails
    \/ ReturnFiles
    \/ ReadFile
    \/ ReadFails
    \/ LinkParsedFiles
    \/ AssembleNodes
    \/ EmitGraph
    \/ WriteOutput
    \/ WriteFails
    \/ Catch

\* a rejected promise of main has its handler run by the event loop
SpecMain == InitMain /\ [][NextMain]_vars /\ WF_vars(Catch)

\* listing a directory or reading a file has failed
TraversalFailed == error \in {"readdir", "readFile"}

\* C20: after a failure of listing a directory or of reading a file the output file is
\* never written, not even in part, and the run ends with exit code 1; the file is
\* written only when main is past buildGraph, which has listed every directory and read
\* every file of the tree, and what is written is the graph it returned
C20_FailedRunWritesNothing ==
    /\ [](TraversalFailed => ~outFile.written)
    /\ [](outFile.written =>
             /\ pc \in {"exited", "failed"}
             /\ walk.todo = <<>>
             /\ Range(fsFiles) = walk.tree
             /\ Len(parsedFiles) = Len(fsFiles)
             /\ outFile.graph = output)
    /\ []((TraversalFailed /\ pc = "exited") => exitCode # 0)
    /\ (TraversalFailed ~> (pc = "exited" /\ exitCode # 0))

\* the second file of a tree could not be read, and the run has ended
C20_Witness ==
    /\ error = "readFile"
    /\ Len(parsedFiles) = 1
    /\ Len(fsFiles) > 1
    /\ pc = "exited"
    /\ exitCode = 1
    /\ ~outFile.written

(***************************************************************************)
(* main from its first line: parseArgs reads the arguments, prints the     *)
(* usage and exits on --help, and throws when no root is named.            *)
(***************************************************************************)
\* the arguments: the help option, the root option, and a value
ArgTokens == {"--help", "--root", "r"}

Argvs == UNION {[1..n -> ArgTokens] : n \in 0..MaxArgs}

\* the trees under the root in the runs that start at parseArgs
ArgsTreePaths == { <<"c">> }

RECURSIVE ParseArgsFrom(_, _, _)
\* the loop of parseArgs from argv[i - 1] on, root being what it is so far
ParseArgsFrom(args, i, root) ==
    IF i > Len(args) THEN [outcome |-> "options", root |-> root]
    ELSE IF args[i] = "--help" THEN [outcome |-> "exit", root |-> root]
    ELSE IF args[i] = "--root"
         THEN ParseArgsFrom(args, i + 2, IF i + 1 <= Len(args) THEN args[i + 1] ELSE "")
    ELSE [outcome |-> "throw", root |-> root]

\* a parseArgs that takes an empty root for a root
parseArgsWithoutRootCheck(args) == ParseArgsFrom(args, 1, "")

\* parseArgs: the options, a throw (unknown argument, missing root) or process.exit(0)
parseArgs(args) ==
    LET parsed == ParseArgsFrom(args, 1, "")
    IN  IF parsed.outcome = "options" /\ parsed.root = ""
        THEN [outcome |-> "throw", root |-> ""]
        ELSE parsed

InitArgs == MainAt("args", Argvs, ArgsTreePaths)

\* parseArgs returns the options
ParseArgsReturns ==
    /\ pc = "args"
    /\ parseArgs(argv).outcome = "options"
    /\ pc' = "main"
    /\ UNCHANGED <<fsFiles, sourceTexts, parsedFiles, declsRead, suffixIndex, edges, edgeKeys,
                   virtualNodes, aliasCounts, targetsByFile, directConsumersByTarget,
                   edgeNumber, nodes, output>>
    /\ UNCHANGED <<mainVars, resolverVars, stripVars, call>>

\* parseArgs throws inside main
ParseArgsThrows ==
    /\ pc = "args"
    /\ parseArgs(argv).outcome = "throw"
    /\ Reject("args")

\* parseArgs meets --help: printHelp, then process.exit(0)
PrintHelp ==
    /\ pc = "args"
    /\ parseArgs(argv).outcome = "exit"
    /\ pc' = "exited"
    /\ UNCHANGED <<fsFiles, sourceTexts, parsedFiles, declsRead, suffixIndex, edges, edgeKeys,
                   virtualNodes, aliasCounts, targetsByFile, directConsumersByTarget,
                   edgeNumber, nodes, output>>
    /\ UNCHANGED <<mainVars, resolverVars, stripVars, call>>

NextArgs ==
    \/ ParseArgsReturns
    \/ ParseArgsThrows
    \/ PrintHelp
    \/ NextMain

\* parseArgs is synchronous code and runs to its end; the handler of a rejected main
\* is run by the event loop
SpecArgs ==
    /\ InitArgs
    /\ [][NextArgs]_vars
    /\ WF_vars(ParseArgsReturns \/ ParseArgsThrows \/ PrintHelp)
    /\ WF_vars(Catch)

\* no --root option with a value after it is among the arguments
RootMissing == ~\E i \in DOMAIN argv : argv[i] = "--root" /\ i + 1 <= Len(argv)

\* the root is not named, or it is named and is no directory
BadRoot == RootMissing \/ error = "root"

HelpAsked == "--help" \in Range(argv)

\* no directory was listed, no file was read, nothing was written
NoWorkDone ==
    /\ walk.todo = <<>>
    /\ walk.files = {}
    /\ fsFiles = <<>>
    /\ sourceTexts = <<>>
    /\ parsedFiles = <<>>
    /\ ~outFile.written

\* C21 as stated: a run whose root is missing or is no directory ends with a nonzero
\* exit code, and lists, reads and writes nothing
C21_BadRootFailsTheRun ==
    BadRoot => /\ NoWorkDone
               /\ pc = "exited" => exitCode # 0

\* C21, amended: a run without --help among its arguments whose root is missing or is
\* no directory lists, reads and writes nothing, and ends, with exit code 1
C21_BadRootFailsUnlessHelpIsAsked ==
    /\ []((BadRoot /\ ~HelpAsked) => NoWorkDone)
    /\ []((BadRoot /\ ~HelpAsked /\ pc = "exited") => exitCode = 1)
    /\ ((BadRoot /\ ~HelpAsked) ~> (pc = "exited" /\ exitCode = 1))

\* the root option is the last argument and has no value: the run has ended
C21_Witness ==
    /\ argv = <<"--root">>
    /\ walk.tree # {}
    /\ error = "args"
    /\ pc = "exited"
    /\ exitCode = 1
    /\ NoWorkDone

(***************************************************************************)
(* chooseModulePath on its own, called on alias maps and fallbacks.        *)
(***************************************************************************)
\* a function is called on its own: nothing else of the program runs
Calling(c) ==
    /\ GraphIdle
    /\ ResolverIdle
    /\ MainIdle
    /\ strip = [pc |-> "idle"]
    /\ parsedImports = NoImports
    /\ call = c

\* the function returns
Return(result) ==
    /\ call' = [call EXCEPT !.result = result, !.pc = "returned"]
    /\ UNCHANGED <<graphVars, resolverVars, mainVars, stripVars>>

\* the spellings an alias map can hold
AliasSpellings ==
    { <<"c">>, <<"a", "/", "c">>, <<"b", "/", "c">>, <<"x", "/", "c">>,
      <<"b", "/", "a", "/", "c">> }

\* the alias maps: spelling -> count
AliasMaps == UNION {[S -> 1..MaxAliasCount] : S \in SUBSET AliasSpellings}

\* the paths of the files whose modulePath is chosen
FallbackPaths == { <<"d">>, <<"b", "/", "a", "/", "c">> }

InitChoose ==
    \E aliases \in AliasMaps, fallback \in FallbackPaths :
        Calling([pc |-> "called", aliases |-> aliases, fallback |-> fallback,
                 result |-> undefined])

ChooseModulePath ==
    /\ call.pc = "called"
    /\ Return(chooseModulePath(call.aliases, call.fallback))

NextChoose == ChooseModulePath

SpecChoose == InitChoose /\ [][NextChoose]_vars

\* the characters of the model in the order of their UTF-16 code units
CodeUnitOrder ==
    <<".", "/", "0", "1", "2", "3", "4", "5", "6", "7", "8", "9", "\\",
      "a", "b", "c", "d", "e", "m", "x">>

CodeUnit(ch) == CHOOSE i \in DOMAIN CodeUnitOrder : CodeUnitOrder[i] = ch

RECURSIVE LexLess(_, _)
\* a comes before b in the lexicographic order
LexLess(a, b) ==
    IF b = <<>> THEN FALSE
    ELSE IF a = <<>> THEN TRUE
    ELSE IF Head(a) = Head(b) THEN LexLess(Tail(a), Tail(b))
    ELSE CodeUnit(Head(a)) < CodeUnit(Head(b))

\* spelling s is preferred to spelling t: more occurrences; as many and longer; as
\* many, as long and lexicographically smaller
Preferred(aliases, s, t) ==
    \/ aliases[s] > aliases[t]
    \/ aliases[s] = aliases[t] /\ Len(s) > Len(t)
    \/ aliases[s] = aliases[t] /\ Len(s) = Len(t) /\ LexLess(s, t)

DeclarationsUsing(spelling, target) ==
    {d \in (DOMAIN parsedFiles) \X Kinds :
        /\ spelling \in Range(DeclaredPaths(parsedFiles[d[1]], d[2]))
        /\ ResolvedTarget(spelling, suffixIndex) = target}

\* every spelling declared in some indexed file
DeclaredSpellings ==
    UNION {Range(DeclaredPaths(parsedFiles[i], kind)) : i \in DOMAIN parsedFiles, kind \in Kinds}

\* C23: the alias map of an indexed file holds every declared spelling other than the
\* file's id that resolved to the file, with the number of (file, kind) declarations
\* that use it, and nothing else
C23_AliasesAreAllOtherSpellings ==
    pc = "done" =>
        \A target \in parsedFileIds :
            LET aliasMap == MapGetOr(aliasCounts, target, EmptyMap)
                expected == {s \in DeclaredSpellings \ {target} :
                                DeclarationsUsing(s, target) # {}}
            IN  /\ DOMAIN aliasMap = expected
                /\ \A s \in expected : aliasMap[s] = Cardinality(DeclarationsUsing(s, target))

\* the targets are parallel to the declared paths: as many, and each the file the
\* declared path resolves to, or the declared path itself
AreTargetsOf(targets, declared) ==
    /\ Len(targets) = Len(declared)
    /\ \A i \in DOMAIN declared :
          targets[i] = LET found == resolveModuleTarget(declared[i], suffixIndex)
                       IN  IF found = undefined THEN declared[i] ELSE found

\* C24: in every node of an indexed file importTargets and reexportTargets are parallel
\* to imports and reexports, and the three counts are the lengths of the three lists
C24_TargetsAreParallel ==
    pc = "done" =>
        \A n \in OutputNodes :
            ~n.isVirtual =>
                /\ AreTargetsOf(n.importTargets, n.imports)
                /\ AreTargetsOf(n.reexportTargets, n.reexports)
                /\ n.importCount = Len(n.imports)
                /\ n.reexportCount = Len(n.reexports)
                /\ n.exportCount = Len(n.exports)

(***************************************************************************)
(* Identifier tokens: the text of a consumer file goes through             *)
(* stripComments and extractIdentifierTokens, and the file is indexed      *)
(* beside the file it imports, which exports function Foo.                 *)
(***************************************************************************)
RECURSIVE StringEnd(_, _)
\* ([^"\\]|\\.)*" from position q: the position of the closing quote, or 0 when the
\* pattern does not match (the text ends, or a backslash is followed by a line end,
\* which the dot does not match)
StringEnd(text, q) ==
    IF q > Len(text) THEN 0
    ELSE IF text[q] = "\"" THEN q
    ELSE IF text[q] = "\\"
         THEN IF q + 1 <= Len(text) /\ text[q + 1] \notin {"\n", "\r"}
              THEN StringEnd(text, q + 2)
              ELSE 0
    ELSE StringEnd(text, q + 1)

RECURSIVE ReplaceStrings(_, _)
\* source.replace(/"([^"\\]|\\.)*"/g, " ") from position p on
ReplaceStrings(text, p) ==
    IF p > Len(text) THEN <<>>
    ELSE IF text[p] = "\"" /\ StringEnd(text, p + 1) # 0
         THEN <<" ">> \o ReplaceStrings(text, StringEnd(text, p + 1) + 1)
    ELSE <<text[p]>> \o ReplaceStrings(text, p + 1)

\* the matches of \b[A-Za-z_][A-Za-z0-9_]*\b in a text without digits: the longest
\* runs of word characters
IdentifierRuns(text) ==
    {run \in {<<i, j>> : i, j \in DOMAIN text} :
        /\ run[1] <= run[2]
        /\ \A k \in run[1]..run[2] : text[k] \notin NonWordChars
        /\ run[1] = 1 \/ text[run[1] - 1] \in NonWordChars
        /\ run[2] = Len(text) \/ text[run[2] + 1] \in NonWordChars}

\* the name a run spells: a keyword or name of the model's texts, or a longer name
TokenName(text, run) == IF run[1] = run[2] THEN text[run[1]] ELSE "<joined>"

\* extractIdentifierTokens on a text
extractIdentifierTokensOfText(text) ==
    LET noStrings == ReplaceStrings(text, 1)
    IN  {TokenName(noStrings, run) : run \in IdentifierRuns(noStrings)}

\* the characters of the texts of a consumer file
TokenChars == {"\"", "\\", "/", "*", "\n", "Foo"}

TokenTexts == UNION {[1..n -> TokenChars] : n \in 0..MaxTextLen}

\* the file c, which exports function Foo
ExporterFile ==
    [id |-> <<"c">>, filePath |-> <<"c">>, loc |-> 1, functionCount |-> 1,
     imports |-> <<>>, reexports |-> <<>>, exportedSymbols |-> <<"Foo">>,
     tokens |-> {"export", "function", "Foo"}]

\* the file m: an import of c, and after it the text given to stripComments
ConsumerFile(stripped) ==
    [id |-> <<"m">>, filePath |-> <<"m">>, loc |-> 1, functionCount |-> 0,
     imports |-> <<<<"c">>>>, reexports |-> <<>>, exportedSymbols |-> <<>>,
     tokens |-> {"import", "path", "version"} \cup extractIdentifierTokensOfText(stripped)]

InitTokens ==
    /\ GraphIdle
    /\ ResolverIdle
    /\ MainIdle
    /\ CallIdle
    /\ parsedImports = NoImports
    /\ \E text \in TokenTexts :
          strip = [pc |-> "scan", source |-> text, out |-> <<>>, i |-> 0,
                   inString |-> FALSE, inLineComment |-> FALSE, inBlockComment |-> FALSE,
                   escaped |-> FALSE, consumedIn |-> <<>>]

\* the read loop of buildGraph over the files c and m: the tokens of m are those of
\* its stripped text
ReadTokenFiles ==
    /\ strip.pc = "returned"
    /\ pc = "idle"
    /\ fsFiles' = <<ExporterFile.id, ConsumerFile(strip.out).id>>
    /\ parsedFiles' = <<ExporterFile, ConsumerFile(strip.out)>>
    /\ pc' = "read"
    /\ UNCHANGED <<sourceTexts, declsRead, suffixIndex, edges, edgeKeys, virtualNodes,
                   aliasCounts, targetsByFile, directConsumersByTarget, edgeNumber, nodes,
                   output>>
    /\ UNCHANGED <<resolverVars, mainVars, stripVars, call>>

NextTokens ==
    \/ StripStep
    \/ StripReturn
    \/ ReadTokenFiles
    \/ LinkParsedFiles
    \/ AssembleNodes
    \/ EmitGraph

SpecTokens == InitTokens /\ [][NextTokens]_vars

\* the positions of the name Foo in the text given to stripComments
FooPositions == {p \in DOMAIN strip.source : strip.source[p] = "Foo"}

\* C25: a file in which the name Foo is written, and only inside string literals that
\* are closed and inside comments, does not have Foo among its tokens and is not
\* listed as a user of the symbol Foo of the file it imports
C25_NamesInStringsAreNoTokens ==
    (/\ pc = "done"
     /\ FooPositions # {}
     /\ \A p \in FooPositions : strip.consumedIn[p] \in {"string", "line", "block"}
     /\ ~strip.inString)
        => /\ "Foo" \notin parsedFiles[2].tokens
           /\ \A n \in OutputNodes :
                 n.id = ExporterFile.id => "Foo" \notin DOMAIN n.symbolUsers

(***************************************************************************)
(* The viewer's expandNeighbors on its own, over the graphs of four nodes. *)
(***************************************************************************)
NodeIds == {"n1", "n2", "n3", "n4"}

\* the source and target pairs of the edge lists: any two nodes, and n1 with itself
EdgePairs == {pair \in SUBSET NodeIds : Cardinality(pair) = 2} \cup {{"n1"}}

\* the adjacency map of an edge list: every node has an entry, and an edge joins its
\* source to its target and its target to its source
Adjacency(pairs) == [n \in NodeIds |-> {other \in NodeIds : {n, other} \in pairs}]

\* the orders in which the elements of a set can be iterated
Orderings(S) ==
    {order \in [1..Cardinality(S) -> S] :
        \A i, j \in 1..Cardinality(S) : i # j => order[i] # order[j]}

\* the elements of a sequence that pass the test, as queue entries of a depth
Entries(order, passing, depth) ==
    LET Passes(id) == id \in passing
        kept == SelectSeq(order, Passes)
    IN  [i \in DOMAIN kept |-> [id |-> kept[i], depth |-> depth]]

\* a loop that expands the entries of depth maxDepth too
ExpandIterationOneDeeper(c, order) ==
    LET current == Head(c.queue)
        fresh == (c.allowed \cap Range(order)) \ c.visited
    IN  IF current.depth > c.maxDepth \/ current.id \notin DOMAIN c.adjacency
        THEN [c EXCEPT !.queue = Tail(c.queue)]
        ELSE [c EXCEPT !.queue = Tail(c.queue) \o Entries(order, fresh, current.depth + 1),
                       !.visited = c.visited \cup fresh]

\* one iteration of the while loop: the head of the queue is taken, and its neighbors,
\* iterated in the given order, are visited and queued
ExpandIteration(c, order) ==
    LET current == Head(c.queue)
        fresh == (c.allowed \cap Range(order)) \ c.visited
    IN  IF current.depth >= c.maxDepth \/ current.id \notin DOMAIN c.adjacency
        THEN [c EXCEPT !.queue = Tail(c.queue)]
        ELSE [c EXCEPT !.queue = Tail(c.queue) \o Entries(order, fresh, current.depth + 1),
                       !.visited = c.visited \cup fresh]

InitExpand ==
    \E pairs \in SUBSET EdgePairs, seeds \in SUBSET NodeIds, hidden \in SUBSET NodeIds,
       maxDepth \in 0..MaxDepth :
        /\ Cardinality(seeds) <= 2
        /\ Cardinality(hidden) <= 1
        /\ Calling([pc |-> "called", seeds |-> seeds, maxDepth |-> maxDepth,
                    adjacency |-> Adjacency(pairs), allowed |-> NodeIds \ hidden,
                    visited |-> {}, queue |-> <<>>, result |-> {}])

\* the loop over the seeds
EnqueueSeeds ==
    /\ call.pc = "called"
    /\ \E order \in Orderings(call.seeds) :
          call' = [call EXCEPT !.visited = call.seeds \cap call.allowed,
                               !.queue = Entries(order, call.allowed, 0),
                               !.pc = "loop"]
    /\ UNCHANGED <<graphVars, resolverVars, mainVars, stripVars>>

\* an iteration of the while loop
VisitNext ==
    /\ call.pc = "loop"
    /\ call.queue # <<>>
    /\ \E order \in Orderings(IF Head(call.queue).id \in DOMAIN call.adjacency
                              THEN call.adjacency[Head(call.queue).id] ELSE {}) :
          call' = ExpandIteration(call, order)
    /\ UNCHANGED <<graphVars, resolverVars, mainVars, stripVars>>

\* the queue is empty: visited is returned
ReturnVisited ==
    /\ call.pc = "loop"
    /\ call.queue = <<>>
    /\ Return(call.visited)

NextExpand == EnqueueSeeds \/ VisitNext \/ ReturnVisited

\* the function is synchronous code and runs to its return
SpecExpand == InitExpand /\ [][NextExpand]_vars /\ WF_vars(NextExpand)

RECURSIVE WithinSteps(_, _, _, _)
\* the allowed nodes a path of at most k steps through allowed nodes reaches from an
\* allowed seed
WithinSteps(k, seeds, adjacency, allowed) ==
    IF k = 0 THEN seeds \cap allowed
    ELSE LET nearer == WithinSteps(k - 1, seeds, adjacency, allowed)
         IN  nearer \cup {n \in allowed : \E via \in nearer : n \in adjacency[via]}

\* C26: expandNeighbors returns, and what it returns is the set of the allowed nodes
\* within maxDepth steps of an allowed seed along paths of allowed nodes
C26_ExpandsToDepth ==
    /\ [](call.pc = "returned" =>
             call.result = WithinSteps(call.maxDepth, call.seeds, call.adjacency, call.allowed))
    /\ <>(call.pc = "returned")

\* the selected node n1 on a cycle with n2 and n3, n4 two steps away and shown in the
\* 2 hops view
C26_Witness ==
    /\ call.pc = "returned"
    /\ call.seeds = {"n1"}
    /\ call.maxDepth = 2
    /\ call.adjacency["n1"] = {"n2", "n3"}
    /\ call.adjacency["n2"] = {"n1", "n3"}
    /\ call.adjacency["n4"] = {"n3"}
    /\ call.result = NodeIds
    /\ WithinSteps(1, call.seeds, call.adjacency, call.allowed) = {"n1", "n2", "n3"}

\* C27: in a returned graph every edge goes from the node of an indexed file to a node
\* of the list, and no placeholder node is the source of an edge
C27_EdgesJoinNodes ==
    pc = "done" =>
        \A e \in OutputEdges :
            /\ \E n \in OutputNodes : n.id = e.source /\ ~n.isVirtual
            /\ \E n \in OutputNodes : n.id = e.target
            /\ \A n \in OutputNodes : n.isVirtual => n.id # e.source

\* a file with an edge to an indexed file and an edge to a placeholder node
C27_Witness ==
    /\ pc = "done"
    /\ \E e1, e2 \in OutputEdges :
          /\ e1.source = e2.source
          /\ \E n \in OutputNodes : n.id = e1.target /\ n.isVirtual
          /\ \E n \in OutputNodes : n.id = e2.target /\ ~n.isVirtual /\ n.id # e2.source

\* the segments of the declared path of the last resolution, after normalization
ResolvedSegments == Segments(normalizePath(resolution.modulePath))

\* the suffixes of the declared path, by whole segments
SegmentSuffixes ==
    {JoinSlash(SliceFrom(ResolvedSegments, k)) : k \in 0..(Len(ResolvedSegments) - 1)}

\* C28: a file returned by resolveModuleTarget is the only indexed file whose path ends,
\* on a segment boundary, with some suffix of the normalized declared path
C28_ResolvedByUniqueSuffix ==
    (resolverPc = "resolved" /\ resolution.target # undefined) =>
        \E suffix \in SegmentSuffixes :
            /\ suffix # <<>>
            /\ MatchingFiles(suffix, RecordPathSet) = {resolution.target}

\* a file returned for a declared path of three segments whose last segment alone is
\* the end of another indexed file too
C28_Witness ==
    /\ resolverPc = "resolved"
    /\ resolution.target # undefined
    /\ Len(ResolvedSegments) = 3
    /\ Cardinality(MatchingFiles(Attempt(normalizePath(resolution.modulePath), 2),
                                 RecordPathSet)) >= 2

\* the indexed files that end with attempt k of the last declared path
AttemptMatches(k) ==
    MatchingFiles(Attempt(normalizePath(resolution.modulePath), k), RecordPathSet)

\* C29: a declared path that, as a whole, is a suffix of several indexed files is
\* unresolved; every shorter suffix matches at least the files the longer ones match,
\* and a resolution by attempt k comes after attempts that matched no file
C29_AmbiguousWholePathIsUnresolved ==
    resolverPc = "resolved" =>
        /\ Cardinality(AttemptMatches(0)) >= 2 => resolution.target = undefined
        /\ Cardinality(MatchingFiles(JoinSlash(ResolvedSegments), RecordPathSet)) >= 2
              => resolution.target = undefined
        /\ \A j, k \in Attempts(normalizePath(resolution.modulePath)) :
              j < k => AttemptMatches(j) \subseteq AttemptMatches(k)
        /\ \A k \in Attempts(normalizePath(resolution.modulePath)) :
              (resolution.target # undefined /\ AttemptMatches(k) = {resolution.target}
                  /\ \A j \in 0..(k - 1) : AttemptMatches(j) # {resolution.target})
                 => \A j \in 0..(k - 1) : AttemptMatches(j) = {}

\* a declared path of two segments that, as a whole, ends two indexed files
C29_Witness ==
    /\ resolverPc = "resolved"
    /\ Len(ResolvedSegments) = 2
    /\ Cardinality(AttemptMatches(0)) = 2
    /\ Cardinality(AttemptMatches(1)) = 3
    /\ resolution.target = undefined

(***************************************************************************)
(* normalizePath applied twice to one declared path: by parseImports, which *)
(* stores the declared path, and again by resolveModuleTarget.              *)
(***************************************************************************)
MaxPieces == 4

\* what a path string is built from: a segment, "/", "\" and "./"
PathPieces == { <<"a">>, <<"/">>, <<"\\">>, <<".", "/">> }

RECURSIVE PathsOf(_)
\* the path strings of up to n pieces
PathsOf(n) ==
    IF n = 0 THEN { <<>> }
    ELSE PathsOf(n - 1) \cup {p \o piece : p \in PathsOf(n - 1), piece \in PathPieces}

\* a declared path is a match of [^"]+, hence not empty
PathStrings == PathsOf(MaxPieces) \ { <<>> }

InitNormalize ==
    \E raw \in PathStrings :
        Calling([pc |-> "declared", raw |-> raw, stored |-> undefined,
                 result |-> undefined])

\* parseImports stores the normalized declared path, unless it is empty
StoreDeclaredPath ==
    /\ call.pc = "declared"
    /\ normalizePath(call.raw) # <<>>
    /\ call' = [call EXCEPT !.stored = normalizePath(call.raw), !.pc = "stored"]
    /\ UNCHANGED <<graphVars, resolverVars, mainVars, stripVars>>

\* a declared path that is empty once normalized is stored nowhere
SkipEmptyPath ==
    /\ call.pc = "declared"
    /\ normalizePath(call.raw) = <<>>
    /\ call' = [call EXCEPT !.pc = "skipped"]
    /\ UNCHANGED <<graphVars, resolverVars, mainVars, stripVars>>

\* resolveModuleTarget normalizes the stored path again
NormalizeStoredPath ==
    /\ call.pc = "stored"
    /\ Return(normalizePath(call.stored))

NextNormalize == StoreDeclaredPath \/ SkipEmptyPath \/ NormalizeStoredPath

SpecNormalize == InitNormalize /\ [][NextNormalize]_vars

HasBackslash(s) == \E i \in DOMAIN s : s[i] = "\\"

HasDoubledSlash(s) == \E i \in 1..(Len(s) - 1) : s[i] = "/" /\ s[i + 1] = "/"

HasLeadingDotSlash(s) == Len(s) >= 2 /\ s[1] = "." /\ s[2] = "/"

\* C30: normalizing a stored declared path again gives the stored path, and a stored
\* declared path has no backslash, no doubled slash and no leading "./"
C30_NormalizePathIsIdempotent ==
    call.pc = "returned" =>
        /\ call.result = call.stored
        /\ ~HasBackslash(call.stored)
        /\ ~HasDoubledSlash(call.stored)
        /\ ~HasLeadingDotSlash(call.stored)

====
